---- MODULE Spec2Model ----
(***************************************************************************)
(* Accounting engine of portfolio_dca.py: the cash ledger                  *)
(* (AnalysisEngine.calcular_saldo_usdt), the per-asset weighted-average    *)
(* cost fold (AnalysisEngine._analisar_moeda) and the aggregation          *)
(* (AnalysisEngine.calcular_portfolio).                                    *)
(*                                                                         *)
(* Numbers.  The code accumulates in decimal.Decimal under the default     *)
(* context (28 significant digits, ROUND_HALF_EVEN) and converts to float  *)
(* (binary64, 15 to 17 significant decimal digits) in what it returns.     *)
(* A number is modelled as a normalised pair [c, e] meaning c * 10^e, as   *)
(* Decimal stores it; every Decimal operation rounds its exact result      *)
(* half-even to DecPrec significant digits and every float conversion or   *)
(* float operation rounds to FloatPrec significant digits.  TLC's integers *)
(* are 32 bits wide, so the two precisions are scaled down; the order      *)
(* FloatPrec < DecPrec and "inputs have fewer digits than FloatPrec" of    *)
(* the program is kept.                                                    *)
(***************************************************************************)
EXTENDS Integers, Sequences, FiniteSets, TLC

\* ------------------------------------------------------------------ bounds

\* significant digits of the Decimal context (28 in the program)
DecPrec == 5
\* significant decimal digits of a float (15..17 in the program)
FloatPrec == 4
\* longest transaction list given to the engine
MaxOps == 2
\* longest single-asset transaction list given to the engine
MaxOpsMoeda == 4
\* lines in the file of the transaction log
MaxLinhas == 2

\* ------------------------------------------------------- decimal numbers

Nenhum == "None"

Abs(n) == IF n < 0 THEN -n ELSE n

Sinal(n) == IF n < 0 THEN -1 ELSE IF n > 0 THEN 1 ELSE 0

Max(a, b) == IF a >= b THEN a ELSE b

Min(a, b) == IF a <= b THEN a ELSE b

RECURSIVE NumDigitos(_)
NumDigitos(n) == IF n < 10 THEN 1 ELSE 1 + NumDigitos(n \div 10)

\* the number c * 10^e with the trailing zeros of c moved into e
RECURSIVE Normalizar(_, _)
Normalizar(c, e) ==
    IF c = 0 THEN [c |-> 0, e |-> 0]
    ELSE IF c % 10 = 0 THEN Normalizar(c \div 10, e + 1)
    ELSE [c |-> c, e |-> e]

D(c, e) == Normalizar(c, e)

Zero == D(0, 0)

\* m >= 0 without its last k digits, rounded half-even; resto: digits
\* beyond m that were non-zero (the exact value lies above m)
MeioPar(m, k, resto) ==
    IF k = 0 THEN m
    ELSE LET q == m \div (10 ^ k)
             r == m % (10 ^ k)
             meio == 5 * (10 ^ (k - 1))
         IN  IF r > meio \/ (r = meio /\ resto) THEN q + 1
             ELSE IF r = meio THEN q + (q % 2)
             ELSE q

\* c * 10^e rounded to prec significant digits (ROUND_HALF_EVEN)
Arredondar(c, e, prec, resto) ==
    LET m == Abs(c)
        k == Max(NumDigitos(m) - prec, 0)
    IN  Normalizar(Sinal(c) * MeioPar(m, k, resto), e + k)

\* position of the leading digit: x is d.ddd * 10^Adj(x)
Adj(x) == x.e + NumDigitos(Abs(x.c)) - 1

\* exact sum, rounded to prec digits.  An addend too small to reach the
\* digits kept (and the guard digit) only makes the result inexact.
SomaArred(x, y, prec) ==
    IF x.c = 0 THEN Arredondar(y.c, y.e, prec, FALSE)
    ELSE IF y.c = 0 THEN Arredondar(x.c, x.e, prec, FALSE)
    ELSE LET g == IF Adj(x) >= Adj(y) THEN x ELSE y
             p == IF Adj(x) >= Adj(y) THEN y ELSE x
         IN  IF Adj(g) - Adj(p) > prec + 1
             THEN LET w == Max(prec + 2 - NumDigitos(Abs(g.c)), 0)
                  IN  Arredondar(g.c * (10 ^ w) + Sinal(p.c), g.e - w, prec, FALSE)
             ELSE LET m == Min(x.e, y.e)
                  IN  Arredondar(x.c * (10 ^ (x.e - m)) + y.c * (10 ^ (y.e - m)),
                                 m, prec, FALSE)

Neg(x) == [c |-> -x.c, e |-> x.e]

\* Decimal.__add__, Decimal.__sub__, Decimal.__mul__, Decimal.__truediv__
Somar(x, y) == SomaArred(x, y, DecPrec)

Subtrair(x, y) == SomaArred(x, Neg(y), DecPrec)

Multiplicar(x, y) == Arredondar(x.c * y.c, x.e + y.e, DecPrec, FALSE)

QuocArred(x, y, prec) ==
    IF x.c = 0 THEN Zero
    ELSE LET n == Abs(x.c)
             d == Abs(y.c)
             w == Max(prec + 1 + NumDigitos(d) - NumDigitos(n), 0)
             q == (n * (10 ^ w)) \div d
             r == (n * (10 ^ w)) % d
         IN  Arredondar(Sinal(x.c) * Sinal(y.c) * q, x.e - y.e - w, prec, r # 0)

Dividir(x, y) == QuocArred(x, y, DecPrec)

\* sign of x - y, by sign, then magnitude, then the aligned coefficients
Comparar(x, y) ==
    IF Sinal(x.c) # Sinal(y.c) THEN (IF Sinal(x.c) > Sinal(y.c) THEN 1 ELSE -1)
    ELSE IF x.c = 0 THEN 0
    ELSE IF Adj(x) # Adj(y)
         THEN (IF Adj(x) > Adj(y) THEN Sinal(x.c) ELSE -Sinal(x.c))
    ELSE LET m == Min(x.e, y.e)
         IN  Sinal(x.c * (10 ^ (x.e - m)) - y.c * (10 ^ (y.e - m)))

Maior(x, y) == Comparar(x, y) > 0

MenorIgual(x, y) == Comparar(x, y) <= 0

\* float(Decimal): the nearest float
ToFloat(x) == Arredondar(x.c, x.e, FloatPrec, FALSE)

\* Decimal(str(v)) of a float v: the digits and exponent str prints
DecimalStr(v) == Normalizar(v.c, v.e)

\* float + float, float - float, float * float
FSomar(x, y) == SomaArred(x, y, FloatPrec)

FSubtrair(x, y) == SomaArred(x, Neg(y), FloatPrec)

FMultiplicar(x, y) == Arredondar(x.c * y.c, x.e + y.e, FloatPrec, FALSE)

FAbs(x) == [c |-> Abs(x.c), e |-> x.e]

\* ------------------------------------------------------------ the inputs

Moedas == {"USDT", "BTC", "ETH"}

Tipos == {"compra", "venda"}

\* timestamps (second precision: two rows may share one)
Datas == {1, 2}

\* a row as carregar_operacoes returns it: Valor_USDT and Quantidade are
\* floats; Preco = Valor_USDT / Quantidade, as the forms that write the
\* rows compute it
Op(data, moeda, tipo, valor, qtd) ==
    [Data |-> data, Moeda |-> moeda, Operacao |-> tipo, Valor_USDT |-> valor,
     Preco |-> ToFloat(Dividir(valor, qtd)), Quantidade |-> qtd]

\* (amount, quantity) of a row: 100 for 1 unit, 200 for 3 units
Montantes == {<<D(1, 2), D(1, 0)>>, <<D(2, 2), D(3, 0)>>}

Registros ==
    {Op(d, m, t, vq[1], vq[2]) : d \in Datas, m \in Moedas, t \in Tipos,
                                 vq \in Montantes}

SeqAte(S, n) == UNION {[1..k -> S] : k \in 0..n}

\* the rows of one asset, one per second: row i has timestamp i
EntradasMoeda ==
    {[i \in DOMAIN s |-> Op(i, "BTC", s[i][1], s[i][2][1], s[i][2][2])] :
        s \in SeqAte(Tipos \X Montantes, MaxOpsMoeda)}

\* Scenario A, B and C of the specification
CenarioA ==
    <<Op(1, "USDT", "compra", D(1, 3), D(1, 3)),
      Op(2, "BTC", "compra", D(5, 2), D(1, -2)),
      Op(3, "BTC", "venda", D(6, 2), D(1, -2))>>

CenarioB ==
    <<Op(1, "BTC", "compra", D(3, 2), D(1, -2)),
      Op(2, "BTC", "compra", D(3, 2), D(1, -2))>>

CenarioC == <<Op(1, "ETH", "compra", D(1, 3), D(2, 0))>>

Entradas ==
    SeqAte(Registros, MaxOps) \cup EntradasMoeda
        \cup {CenarioA, CenarioB, CenarioC}

\* the price cache: a price for some of the assets
Cotacoes == {D(4, 1)}

\* a price of 0.01: one unit is worth the dust threshold and no more
CotacaoMinima == D(1, -2)

MapasDePrecos ==
    UNION {[S -> Cotacoes] : S \in SUBSET {"BTC", "ETH"}}
        \cup {[m \in {"BTC"} |-> CotacaoMinima]}

\* ------------------------------------------------------------ the engine

\* Ordenar without the sort: the rows are replayed in the order given
OrdenarSemOrdem(ops) == ops

\* Inserir with a row put before the rows of its own timestamp
RECURSIVE InserirAntes(_, _)
InserirAntes(ord, op) ==
    IF ord = <<>> THEN <<op>>
    ELSE IF ord[Len(ord)].Data < op.Data THEN Append(ord, op)
    ELSE Append(InserirAntes(SubSeq(ord, 1, Len(ord) - 1), op), ord[Len(ord)])

\* sorted(operacoes, key=lambda x: x['Data']): stable, ascending
RECURSIVE Inserir(_, _)
Inserir(ord, op) ==
    IF ord = <<>> THEN <<op>>
    ELSE IF ord[Len(ord)].Data <= op.Data THEN Append(ord, op)
    ELSE Append(Inserir(SubSeq(ord, 1, Len(ord) - 1), op), ord[Len(ord)])

RECURSIVE Ordenar(_)
Ordenar(ops) ==
    IF ops = <<>> THEN <<>>
    ELSE Inserir(Ordenar(SubSeq(ops, 1, Len(ops) - 1)), ops[Len(ops)])

\* precos_atuais.get(moeda, 0)
PrecoDe(precos, moeda) ==
    IF moeda \in DOMAIN precos THEN precos[moeda] ELSE Zero

\* ---- calcular_saldo_usdt

SaldoInicio == [saldo_usdt |-> Zero, historico_movimentacao |-> <<>>]

\* SaldoPasso with the amount of a crypto sell taken from the balance
SaldoPassoVendaDebita(s, op) ==
    LET valor_usdt == DecimalStr(op.Valor_USDT)
        saldo == IF op.Moeda = "USDT" /\ op.Operacao = "compra"
                 THEN Somar(s.saldo_usdt, valor_usdt)
                 ELSE Subtrair(s.saldo_usdt, valor_usdt)
    IN  [saldo_usdt |-> saldo,
         historico_movimentacao |->
             Append(s.historico_movimentacao,
                    [data |-> op.Data, tipo |-> op.Operacao, moeda |-> op.Moeda,
                     valor |-> ToFloat(valor_usdt), saldo_apos |-> ToFloat(saldo)])]

\* SaldoPasso with the balance clamped at zero
SaldoPassoComPiso(s, op) ==
    LET valor_usdt == DecimalStr(op.Valor_USDT)
        credito == (op.Moeda = "USDT") = (op.Operacao = "compra")
        novo == IF credito THEN Somar(s.saldo_usdt, valor_usdt)
                ELSE Subtrair(s.saldo_usdt, valor_usdt)
        saldo == IF novo.c < 0 THEN Zero ELSE novo
    IN  [saldo_usdt |-> saldo,
         historico_movimentacao |->
             Append(s.historico_movimentacao,
                    [data |-> op.Data, tipo |-> op.Operacao, moeda |-> op.Moeda,
                     valor |-> ToFloat(valor_usdt), saldo_apos |-> ToFloat(saldo)])]

\* one iteration of the loop over the sorted rows; an entry of the history
\* has the key 'moeda' only for a crypto movement (Nenhum: no such key)
SaldoPasso(s, op) ==
    LET valor_usdt == DecimalStr(op.Valor_USDT)
        moeda == op.Moeda
        tipo == op.Operacao
        Mov(saldo, t, m) ==
            [saldo_usdt |-> saldo,
             historico_movimentacao |->
                 Append(s.historico_movimentacao,
                        [data |-> op.Data, tipo |-> t, moeda |-> m,
                         valor |-> ToFloat(valor_usdt),
                         saldo_apos |-> ToFloat(saldo)])]
    IN  IF moeda = "USDT"
        THEN IF tipo = "compra"
             THEN Mov(Somar(s.saldo_usdt, valor_usdt), "deposito_usdt", Nenhum)
             ELSE IF tipo = "venda"
             THEN Mov(Subtrair(s.saldo_usdt, valor_usdt), "saque_usdt", Nenhum)
             ELSE s
        ELSE IF tipo = "compra"
             THEN Mov(Subtrair(s.saldo_usdt, valor_usdt), "compra_crypto", moeda)
             ELSE IF tipo = "venda"
             THEN Mov(Somar(s.saldo_usdt, valor_usdt), "venda_crypto", moeda)
             ELSE s

SaldoRetorno(s) ==
    [saldo_atual |-> ToFloat(s.saldo_usdt),
     historico |-> s.historico_movimentacao]

RECURSIVE SaldoDobra(_, _)
SaldoDobra(ops, n) ==
    IF n = 0 THEN SaldoInicio ELSE SaldoPasso(SaldoDobra(ops, n - 1), ops[n])

CalcularSaldoUsdt(operacoes) ==
    LET ops == Ordenar(operacoes) IN SaldoRetorno(SaldoDobra(ops, Len(ops)))

\* ---- _analisar_moeda

MoedaInicio ==
    [custo_total |-> Zero, quantidade_total |-> Zero, lucro_realizado |-> Zero,
     pmc |-> Zero, operacoes_processadas |-> <<>>]

\* the sell is turned away: 'Venda sem posicao previa'
SemPosicao(m) == m.quantidade_total.c <= 0 \/ m.pmc.c <= 0

\* MoedaCompra with the average set to the unit cost of the last buy
MoedaCompraUltimoPreco(m, op) ==
    LET valor == DecimalStr(op.Valor_USDT)
        qtd == DecimalStr(op.Quantidade)
    IN  [custo_total |-> Somar(m.custo_total, valor),
         quantidade_total |-> Somar(m.quantidade_total, qtd),
         lucro_realizado |-> m.lucro_realizado, pmc |-> Dividir(valor, qtd),
         operacoes_processadas |->
             Append(m.operacoes_processadas,
                    [tipo |-> "compra", data |-> op.Data,
                     quantidade |-> ToFloat(qtd), preco |-> op.Preco,
                     valor |-> ToFloat(valor),
                     pmc_apos |-> ToFloat(Dividir(valor, qtd)),
                     lucro |-> Nenhum, erro |-> Nenhum])]

\* the body of the loop for a buy
MoedaCompra(m, op) ==
    LET valor == DecimalStr(op.Valor_USDT)
        preco == DecimalStr(op.Preco)
        qtd == DecimalStr(op.Quantidade)
        custo_total == Somar(m.custo_total, valor)
        quantidade_total == Somar(m.quantidade_total, qtd)
        pmc == IF quantidade_total.c > 0
               THEN Dividir(custo_total, quantidade_total) ELSE Zero
    IN  [custo_total |-> custo_total, quantidade_total |-> quantidade_total,
         lucro_realizado |-> m.lucro_realizado, pmc |-> pmc,
         operacoes_processadas |->
             Append(m.operacoes_processadas,
                    [tipo |-> "compra", data |-> op.Data,
                     quantidade |-> ToFloat(qtd), preco |-> ToFloat(preco),
                     valor |-> ToFloat(valor), pmc_apos |-> ToFloat(pmc),
                     lucro |-> Nenhum, erro |-> Nenhum])]

\* MoedaVenda without the test for a position: every sell is booked
MoedaVendaSemTeste(m, op) ==
    LET valor == DecimalStr(op.Valor_USDT)
        qtd == DecimalStr(op.Quantidade)
        custo_da_venda == Multiplicar(qtd, m.pmc)
        lucro_venda == Subtrair(valor, custo_da_venda)
    IN  [custo_total |-> Subtrair(m.custo_total, custo_da_venda),
         quantidade_total |-> Subtrair(m.quantidade_total, qtd),
         lucro_realizado |-> Somar(m.lucro_realizado, lucro_venda),
         pmc |-> m.pmc,
         operacoes_processadas |->
             Append(m.operacoes_processadas,
                    [tipo |-> "venda", data |-> op.Data,
                     quantidade |-> ToFloat(qtd), preco |-> op.Preco,
                     valor |-> ToFloat(valor), pmc_apos |-> Nenhum,
                     lucro |-> ToFloat(lucro_venda), erro |-> Nenhum])]

\* MoedaVenda with the cost basis left as it was
MoedaVendaCustoFica(m, op) ==
    IF SemPosicao(m)
    THEN [m EXCEPT !.operacoes_processadas =
             Append(@, [tipo |-> "venda", data |-> op.Data,
                        quantidade |-> ToFloat(DecimalStr(op.Quantidade)),
                        preco |-> ToFloat(DecimalStr(op.Preco)),
                        valor |-> ToFloat(DecimalStr(op.Valor_USDT)),
                        pmc_apos |-> Nenhum, lucro |-> Nenhum,
                        erro |-> "Venda sem posicao previa"])]
    ELSE [MoedaVendaSemTeste(m, op) EXCEPT !.custo_total = m.custo_total]

\* MoedaVenda with the average cost worked out again after the sell
MoedaVendaRecalculaPmc(m, op) ==
    LET v == MoedaVendaSemTeste(m, op)
    IN  IF SemPosicao(m)
        THEN [m EXCEPT !.operacoes_processadas =
                 Append(@, [tipo |-> "venda", data |-> op.Data,
                            quantidade |-> ToFloat(DecimalStr(op.Quantidade)),
                            preco |-> ToFloat(DecimalStr(op.Preco)),
                            valor |-> ToFloat(DecimalStr(op.Valor_USDT)),
                            pmc_apos |-> Nenhum, lucro |-> Nenhum,
                            erro |-> "Venda sem posicao previa"])]
        ELSE [v EXCEPT !.pmc = IF v.quantidade_total.c > 0
                               THEN Dividir(v.custo_total, v.quantidade_total)
                               ELSE Zero]

\* the body of the loop for a sell
MoedaVenda(m, op) ==
    LET valor == DecimalStr(op.Valor_USDT)
        preco == DecimalStr(op.Preco)
        qtd == DecimalStr(op.Quantidade)
        custo_da_venda == Multiplicar(qtd, m.pmc)
        lucro_venda == Subtrair(valor, custo_da_venda)
    IN  IF SemPosicao(m)
        THEN [m EXCEPT !.operacoes_processadas =
                 Append(@, [tipo |-> "venda", data |-> op.Data,
                            quantidade |-> ToFloat(qtd), preco |-> ToFloat(preco),
                            valor |-> ToFloat(valor), pmc_apos |-> Nenhum,
                            lucro |-> Nenhum,
                            erro |-> "Venda sem posicao previa"])]
        ELSE [custo_total |-> Subtrair(m.custo_total, custo_da_venda),
              quantidade_total |-> Subtrair(m.quantidade_total, qtd),
              lucro_realizado |-> Somar(m.lucro_realizado, lucro_venda),
              pmc |-> m.pmc,
              operacoes_processadas |->
                  Append(m.operacoes_processadas,
                         [tipo |-> "venda", data |-> op.Data,
                          quantidade |-> ToFloat(qtd), preco |-> ToFloat(preco),
                          valor |-> ToFloat(valor), pmc_apos |-> Nenhum,
                          lucro |-> ToFloat(lucro_venda), erro |-> Nenhum])]

\* one iteration of the loop; a processed entry has the keys 'pmc_apos',
\* 'lucro' and 'erro' only where the code sets them (Nenhum: no such key)
MoedaPasso(m, op) ==
    IF op.Operacao = "compra" THEN MoedaCompra(m, op)
    ELSE IF op.Operacao = "venda" THEN MoedaVenda(m, op)
    ELSE m

\* 1e-9, the tolerance on the final quantity
Tolerancia == D(1, -9)

\* what follows the loop: the snapshot returned
MoedaRetorno(m, preco_atual) ==
    LET qtd_final == ToFloat(m.quantidade_total)
        custo_final == IF Maior(m.quantidade_total, Tolerancia)
                       THEN ToFloat(m.custo_total) ELSE Zero
        valor_atual == IF preco_atual.c > 0
                       THEN FMultiplicar(qtd_final, preco_atual) ELSE Zero
        lucro_nao_realizado == IF Maior(qtd_final, Tolerancia)
                               THEN FSubtrair(valor_atual, custo_final) ELSE Zero
    IN  [operacoes |-> m.operacoes_processadas, quantidade_final |-> qtd_final,
         pmc_final |-> ToFloat(m.pmc), custo_posicao_final |-> custo_final,
         valor_atual_posicao |-> valor_atual,
         lucro_realizado |-> ToFloat(m.lucro_realizado),
         lucro_nao_realizado |-> lucro_nao_realizado,
         lucro_total |-> FSomar(ToFloat(m.lucro_realizado), lucro_nao_realizado),
         preco_de_mercado |-> preco_atual]

RECURSIVE MoedaDobra(_, _)
MoedaDobra(ops, n) ==
    IF n = 0 THEN MoedaInicio ELSE MoedaPasso(MoedaDobra(ops, n - 1), ops[n])

AnalisarMoeda(ops, preco_atual) ==
    MoedaRetorno(MoedaDobra(ops, Len(ops)), preco_atual)

\* ---- calcular_portfolio

\* DaMoeda with the rows of every asset but USDT under each asset
DaMoedaSemFiltro(ops, moeda) ==
    LET Cripto(op) == op.Moeda # "USDT" IN SelectSeq(ops, Cripto)

\* the rows of one asset, in the order of the list
RECURSIVE DaMoeda(_, _)
DaMoeda(ops, moeda) ==
    IF ops = <<>> THEN <<>>
    ELSE LET resto == DaMoeda(SubSeq(ops, 1, Len(ops) - 1), moeda)
             ult == ops[Len(ops)]
         IN  IF ult.Moeda = moeda THEN Append(resto, ult) ELSE resto

\* the keys of ops_por_moeda in insertion order: each asset but USDT, in
\* the order of its first row in the sorted list
RECURSIVE Chaves(_)
Chaves(ops) ==
    IF ops = <<>> THEN <<>>
    ELSE LET resto == Chaves(SubSeq(ops, 1, Len(ops) - 1))
             moeda == ops[Len(ops)].Moeda
         IN  IF moeda = "USDT" \/ \E i \in DOMAIN resto : resto[i] = moeda
             THEN resto ELSE Append(resto, moeda)

\* 0.01, the dust threshold
Poeira == D(1, -2)

TotaisInicio ==
    [investido_liquido |-> Zero, realizado |-> Zero, nao_realizado |-> Zero,
     valor_atual |-> Zero]

\* the statements up to the loop over the assets (operacoes is not empty)
PortfolioInicio(operacoes) ==
    LET ord == Ordenar(operacoes)
    IN  [saldo_caixa_usdt |-> CalcularSaldoUsdt(operacoes).saldo_atual,
         chaves |-> Chaves(ord),
         ops_por_moeda |-> [m \in {x.Moeda : x \in {ord[i] : i \in DOMAIN ord}}
                                \ {"USDT"} |-> DaMoeda(ord, m)],
         k |-> 1, resultado |-> <<>>, totais |-> TotaisInicio]

\* Incluida with the cost basis looked at as well
IncluidaComCusto(analise_moeda) ==
    \/ Maior(analise_moeda.valor_atual_posicao, Poeira)
    \/ Maior(FAbs(analise_moeda.lucro_realizado), Poeira)
    \/ Maior(analise_moeda.custo_posicao_final, Poeira)

\* is the asset kept in the result
Incluida(analise_moeda) ==
    Maior(analise_moeda.valor_atual_posicao, Poeira)
        \/ Maior(FAbs(analise_moeda.lucro_realizado), Poeira)

\* one iteration of the loop over ops_por_moeda.items()
PortfolioPasso(p, precos_atuais) ==
    LET moeda == p.chaves[p.k]
        analise_moeda == AnalisarMoeda(p.ops_por_moeda[moeda],
                                       PrecoDe(precos_atuais, moeda))
    IN  IF Incluida(analise_moeda)
        THEN [p EXCEPT
                 !.k = @ + 1,
                 !.resultado = @ @@ (moeda :> analise_moeda),
                 !.totais =
                     [investido_liquido |->
                          FSomar(@.investido_liquido, analise_moeda.custo_posicao_final),
                      realizado |-> FSomar(@.realizado, analise_moeda.lucro_realizado),
                      nao_realizado |->
                          FSomar(@.nao_realizado, analise_moeda.lucro_nao_realizado),
                      valor_atual |->
                          FSomar(@.valor_atual, analise_moeda.valor_atual_posicao)]]
        ELSE [p EXCEPT !.k = @ + 1]

\* PortfolioRetorno with the cash added to the total only above the dust
PortfolioRetornoSemCaixaPequeno(p) ==
    LET totais == [p.totais EXCEPT
                      !.valor_atual = IF Maior(p.saldo_caixa_usdt, Poeira)
                                      THEN FSomar(@, p.saldo_caixa_usdt) ELSE @]
        caixa == [quantidade_final |-> p.saldo_caixa_usdt,
                  valor_atual_posicao |-> p.saldo_caixa_usdt,
                  operacoes |-> <<>>, lucro_realizado |-> Zero,
                  lucro_nao_realizado |-> Zero, lucro_total |-> Zero]
    IN  (IF Maior(p.saldo_caixa_usdt, Poeira)
         THEN p.resultado @@ ("USDT (Caixa)" :> caixa) ELSE p.resultado)
            @@ ("totais" :> totais)

\* what follows the loop: the cash is added, the result returned
PortfolioRetorno(p) ==
    LET totais == [p.totais EXCEPT
                      !.valor_atual = FSomar(@, p.saldo_caixa_usdt)]
        caixa == [quantidade_final |-> p.saldo_caixa_usdt,
                  valor_atual_posicao |-> p.saldo_caixa_usdt,
                  operacoes |-> <<>>, lucro_realizado |-> Zero,
                  lucro_nao_realizado |-> Zero, lucro_total |-> Zero]
    IN  (IF Maior(p.saldo_caixa_usdt, Poeira)
         THEN p.resultado @@ ("USDT (Caixa)" :> caixa) ELSE p.resultado)
            @@ ("totais" :> totais)

RECURSIVE PortfolioDobra(_, _, _)
PortfolioDobra(operacoes, precos_atuais, n) ==
    IF n = 0 THEN PortfolioInicio(operacoes)
    ELSE PortfolioPasso(PortfolioDobra(operacoes, precos_atuais, n - 1),
                        precos_atuais)

CalcularPortfolio(operacoes, precos_atuais) ==
    IF operacoes = <<>> THEN <<>>
    ELSE PortfolioRetorno(
             PortfolioDobra(operacoes, precos_atuais,
                            Len(Chaves(Ordenar(operacoes)))))

\* ---- calcular_distribuicao_portfolio

\* float division
FDividir(x, y) == QuocArred(x, y, FloatPrec)

\* the statements up to the loop over the assets (operacoes is not empty)
DistribuicaoInicio(operacoes) ==
    LET ord == Ordenar(operacoes)
    IN  [saldo_usdt |-> CalcularSaldoUsdt(operacoes).saldo_atual,
         chaves |-> Chaves(ord),
         ops_por_moeda |-> [m \in {x.Moeda : x \in {ord[i] : i \in DOMAIN ord}}
                                \ {"USDT"} |-> DaMoeda(ord, m)],
         k |-> 1, distribuicao |-> <<>>, total_valor_crypto |-> Zero]

\* one iteration of the loop over ops_por_moeda.items()
DistribuicaoPasso(d, precos_atuais) ==
    LET moeda == d.chaves[d.k]
        analise == AnalisarMoeda(d.ops_por_moeda[moeda],
                                 PrecoDe(precos_atuais, moeda))
        quantidade_final == analise.quantidade_final
        valor_de_mercado == analise.valor_atual_posicao
    IN  IF Maior(valor_de_mercado, Poeira)
        THEN [d EXCEPT
                 !.k = @ + 1,
                 !.distribuicao =
                     @ @@ (moeda :> [valor_atual |-> valor_de_mercado,
                                     quantidade |-> quantidade_final]),
                 !.total_valor_crypto = FSomar(@, valor_de_mercado)]
        ELSE [d EXCEPT !.k = @ + 1]

\* the entries before the percentages: the cash is added under 'USDT'
DistribuicaoComCaixa(d) ==
    IF Maior(d.saldo_usdt, Poeira)
    THEN d.distribuicao @@ ("USDT" :> [valor_atual |-> d.saldo_usdt,
                                       quantidade |-> d.saldo_usdt])
    ELSE d.distribuicao

\* DistribuicaoRetorno with the percentages taken of the crypto total
DistribuicaoRetornoSobreCrypto(d) ==
    LET distribuicao == DistribuicaoComCaixa(d)
    IN  [distribuicao |->
             [moeda \in DOMAIN distribuicao |->
                 [valor_atual |-> distribuicao[moeda].valor_atual,
                  quantidade |-> distribuicao[moeda].quantidade,
                  percentual |->
                      IF d.total_valor_crypto.c > 0
                      THEN FMultiplicar(FDividir(distribuicao[moeda].valor_atual,
                                                 d.total_valor_crypto), D(1, 2))
                      ELSE Zero]],
         total_investido |-> d.total_valor_crypto]

\* what follows the loop: the total, the cash, the percentages
DistribuicaoRetorno(d) ==
    LET valor_total_portfolio == FSomar(d.total_valor_crypto, d.saldo_usdt)
        distribuicao == DistribuicaoComCaixa(d)
    IN  [distribuicao |->
             [moeda \in DOMAIN distribuicao |->
                 [valor_atual |-> distribuicao[moeda].valor_atual,
                  quantidade |-> distribuicao[moeda].quantidade,
                  percentual |->
                      IF valor_total_portfolio.c > 0
                      THEN FMultiplicar(FDividir(distribuicao[moeda].valor_atual,
                                                 valor_total_portfolio), D(1, 2))
                      ELSE Zero]],
         total_investido |-> d.total_valor_crypto]

\* what is returned for no rows
DistribuicaoVazia == [distribuicao |-> <<>>, total_valor_portfolio |-> Zero]

\* ---- DataManager: the transaction log

\* a field of a line that holds no number: nothing, or text float() and
\* Decimal() refuse
TextoVazio == [texto |-> ""]

TextoInvalido == [texto |-> "abc"]

\* an empty Data field
DataAusente == 0

\* is the field a number, as float(...) and Decimal(str(...)) need it
Numerico(x) == "c" \in DOMAIN x

\* not linha[campo], for a field that may hold a number
CampoVazio(x) == ~Numerico(x) /\ x.texto = ""

\* str.lower() on the kinds the lines hold
Minusculas(t) ==
    CASE t = "Compra" -> "compra"
      [] t = "Venda" -> "venda"
      [] OTHER -> t

\* a whole line: 100 USDT for 1 unit
LinhaBoa(data, moeda, tipo) == Op(data, moeda, tipo, D(1, 2), D(1, 0))

\* a line with one column more than the header has: csv.DictReader keeps
\* what is left over under the key None
LinhaComResto(data, moeda, tipo) ==
    LinhaBoa(data, moeda, tipo) @@ ("Resto" :> <<"extra">>)

\* the lines a file may hold: whole ones, and ones with a field missing,
\* with text for a number, with a kind written another way, or with a
\* column too many
LinhasBrutas ==
    {LinhaBoa(1, "BTC", "compra"), LinhaBoa(2, "BTC", "venda"),
     LinhaBoa(1, "USDT", "compra"),
     [LinhaBoa(1, "BTC", "compra") EXCEPT !.Preco = TextoVazio],
     [LinhaBoa(1, "BTC", "compra") EXCEPT !.Preco = TextoInvalido],
     [LinhaBoa(1, "BTC", "compra") EXCEPT !.Operacao = "Compra"],
     [LinhaBoa(1, "USDT", "compra") EXCEPT !.Operacao = "deposito"],
     [LinhaBoa(1, "BTC", "compra") EXCEPT !.Data = DataAusente],
     [LinhaBoa(1, "BTC", "compra") EXCEPT !.Moeda = ""],
     [LinhaBoa(1, "BTC", "compra") EXCEPT !.Operacao = ""],
     [LinhaBoa(1, "BTC", "compra") EXCEPT !.Valor_USDT = TextoInvalido],
     [LinhaBoa(1, "BTC", "compra") EXCEPT !.Valor_USDT = TextoVazio],
     [LinhaBoa(1, "BTC", "compra") EXCEPT !.Quantidade = TextoInvalido],
     [LinhaBoa(1, "BTC", "compra") EXCEPT !.Quantidade = TextoVazio],
     LinhaComResto(1, "BTC", "compra")}

Arquivos == SeqAte(LinhasBrutas, MaxLinhas)

\* the body of the loop of carregar_operacoes raises for the line
LinhaRecusada(linha) ==
    \/ linha.Data = DataAusente
    \/ linha.Moeda = ""
    \/ linha.Operacao = ""
    \/ CampoVazio(linha.Quantidade)
    \/ CampoVazio(linha.Valor_USDT)
    \/ ~Numerico(linha.Quantidade)
    \/ ~Numerico(linha.Valor_USDT)
    \/ Minusculas(linha.Operacao) \notin {"compra", "venda"}

\* the line as it is appended to operacoes_validas
LinhaCarregada(linha) ==
    [linha EXCEPT !.Quantidade = ToFloat(@), !.Valor_USDT = ToFloat(@)]

RECURSIVE CarregarOperacoes(_)
\* carregar_operacoes() on a file that exists
CarregarOperacoes(linhas) ==
    IF linhas = <<>> THEN <<>>
    ELSE LET antes == CarregarOperacoes(SubSeq(linhas, 1, Len(linhas) - 1))
             linha == linhas[Len(linhas)]
         IN  IF LinhaRecusada(linha) THEN antes
             ELSE Append(antes, LinhaCarregada(linha))

\* ForaDoLimite with the lower bound only
ForaDoLimiteSoNegativo(indice, operacoes) == indice < 0

\* the test of excluir_operacao and atualizar_operacao on the index
ForaDoLimite(indice, operacoes) == indice < 0 \/ indice >= Len(operacoes)

\* del operacoes[indice], indices from 0
Remover(operacoes, indice) ==
    SubSeq(operacoes, 1, indice) \o SubSeq(operacoes, indice + 2, Len(operacoes))

\* operacoes[indice] = nova_operacao, indices from 0
Substituir(operacoes, indice, nova_operacao) ==
    [i \in DOMAIN operacoes |->
        IF i = indice + 1 THEN nova_operacao ELSE operacoes[i]]

\* csv.DictWriter refuses a row that has a key outside fieldnames
ForaDosCampos(operacao) == "Resto" \in DOMAIN operacao

RECURSIVE Escritas(_)
\* the rows writer.writerows(operacoes) has written when it returns or
\* raises: those before the first row DictWriter refuses
Escritas(operacoes) ==
    IF operacoes = <<>> \/ ForaDosCampos(Head(operacoes)) THEN <<>>
    ELSE <<Head(operacoes)>> \o Escritas(Tail(operacoes))

\* writer.writerows(operacoes) raises ValueError
EscritaFalha(operacoes) == \E i \in DOMAIN operacoes : ForaDosCampos(operacoes[i])

\* the rows the callers can hand to atualizar_operacao and salvar_operacao:
\* the edit form takes any text as Data, an empty one too
NovasOperacoes ==
    {LinhaBoa(2, "BTC", "compra"),
     [LinhaBoa(2, "BTC", "compra") EXCEPT !.Data = DataAusente]}

\* the indices the callers may hold
Indices == -1 .. MaxLinhas

\* Decimal(str(op['Preco'])) raises for a row of ops
Levanta(ops) == \E i \in DOMAIN ops : ~Numerico(ops[i].Preco)

\* what a caller gets when a call of the engine raises
InvalidOperation == [excecao |-> "InvalidOperation"]

\* --------------------------------------------------------- the program

VARIABLES
    operacoes,      \* the rows the callers pass: carregar_operacoes()
    precos_atuais,  \* the prices the callers pass: precos_cache
    pc,             \* the function of the engine that is running
    sl,             \* calcular_saldo_usdt: its sorted rows, position, locals
    ml,             \* _analisar_moeda: its arguments, position, locals
    pl,             \* calcular_portfolio: its locals
    ret,            \* the last value returned to the caller
    memo,           \* a value returned earlier, kept by the caller
    dist,           \* calcular_distribuicao_portfolio: its locals
    arquivo,        \* DataManager: the lines of arquivo_csv after the header
    dm,             \* excluir_operacao, atualizar_operacao: their arguments
    pm,             \* PriceManager: exchange, precos_cache, preco_brl,
                    \* ultima_atualizacao
    th,             \* the threads that call atualizar_precos: their position
    _stop_updates,  \* PortfolioDCA._stop_updates
    CCXT_AVAILABLE, \* whether the import of ccxt succeeded
    tree_edicao,    \* the rows the list of the edit tab shows
    indice_editando,\* the index _carregar_transacao kept, if any
    edicao_campos,  \* the values _carregar_transacao put in the form
    agenda,         \* the calls of _atualizar_lista_edicao to come
    agora           \* datetime.now(), in seconds

\* the transaction log and the calls on it
disco == <<arquivo, dm>>

\* the price cache and the threads that refresh it
mercado == <<pm, th, _stop_updates, CCXT_AVAILABLE>>

\* the edit tab and what refreshes it
janela == <<tree_edicao, indice_editando, edicao_campos, agenda, agora>>

vars == <<operacoes, precos_atuais, pc, sl, ml, pl, ret, memo, dist, disco,
          mercado, janela>>

\* no frame; nothing returned yet
SemQuadro == <<>>

SemRetorno == [f |-> Nenhum, moeda |-> Nenhum, valor |-> <<>>]

\* ultima_atualizacao = None: no refresh has succeeded yet
NuncaAtualizado == 0

\* PriceManager.__init__ before setup_exchange
PriceManagerInit ==
    [exchange |-> Nenhum, precos_cache |-> <<>>,
     ultima_atualizacao |-> NuncaAtualizado, preco_brl |-> Zero]

\* the threads that refresh the prices: the loop of
\* iniciar_atualizacoes_automaticas and the worker of
\* atualizar_todas_as_analises
Threads == {"automatica", "analises"}

\* hasattr(self, 'indice_editando') is false
SemIndice == -1

\* the entries of the edit form after _limpar_formulario_edicao
FormularioLimpo == <<>>

\* the edit tab with no rows, nothing loaded, no refresh to come
JanelaVazia ==
    /\ tree_edicao = <<>>
    /\ indice_editando = SemIndice
    /\ edicao_campos = FormularioLimpo
    /\ agenda = 0
    /\ agora = 1

\* no call of the file or of the exchange is running
Parado ==
    /\ dist = SemQuadro
    /\ arquivo = <<>>
    /\ dm = SemQuadro
    /\ pm = PriceManagerInit
    /\ th = [t \in Threads |-> SemQuadro]
    /\ _stop_updates = FALSE
    /\ CCXT_AVAILABLE = TRUE
    /\ JanelaVazia

\* the engine is about to be called with rows and prices
Init ==
    /\ operacoes \in Entradas
    /\ precos_atuais \in MapasDePrecos
    /\ pc = "ocioso"
    /\ sl = SemQuadro
    /\ ml = SemQuadro
    /\ pl = SemQuadro
    /\ ret = SemRetorno
    /\ memo = SemRetorno
    /\ Parado

\* ChamarSaldo sorting the caller's list in place (operacoes.sort)
ChamarSaldoNoLugar ==
    /\ pc = "ocioso"
    /\ pc' = "saldo"
    /\ operacoes' = Ordenar(operacoes)
    /\ sl' = [ops |-> operacoes', i |-> 1, est |-> SaldoInicio]
    /\ ret' = SemRetorno
    /\ UNCHANGED <<precos_atuais, ml, pl, memo,
                 dist, disco, mercado,
                 janela>>

\* calcular_saldo_usdt(operacoes) is called: the locals, the sorted copy
ChamarSaldo ==
    /\ pc = "ocioso"
    /\ pc' = "saldo"
    /\ sl' = [ops |-> Ordenar(operacoes), i |-> 1, est |-> SaldoInicio]
    /\ ret' = SemRetorno
    /\ UNCHANGED <<operacoes, precos_atuais, ml, pl, memo,
                 dist, disco, mercado,
                 janela>>

SaldoIterar ==
    /\ pc = "saldo"
    /\ sl.i <= Len(sl.ops)
    /\ sl' = [sl EXCEPT !.i = @ + 1, !.est = SaldoPasso(@, sl.ops[sl.i])]
    /\ UNCHANGED <<operacoes, precos_atuais, pc, ml, pl, ret, memo,
                 dist, disco, mercado,
                 janela>>

SaldoRetornar ==
    /\ pc = "saldo"
    /\ sl.i > Len(sl.ops)
    /\ ret' = [f |-> "calcular_saldo_usdt", moeda |-> Nenhum,
               valor |-> SaldoRetorno(sl.est)]
    /\ pc' = "ocioso"
    /\ sl' = SemQuadro
    /\ UNCHANGED <<operacoes, precos_atuais, ml, pl, memo,
                 dist, disco, mercado,
                 janela>>

\* _analisar_moeda(ops, precos_atuais.get(moeda, 0)) is called with the
\* rows of one asset in timestamp order, as its callers do
ChamarMoeda ==
    /\ pc = "ocioso"
    /\ \E moeda \in {operacoes[i].Moeda : i \in DOMAIN operacoes} \ {"USDT"} :
           ml' = [moeda |-> moeda, ops |-> DaMoeda(Ordenar(operacoes), moeda),
                  preco_atual |-> PrecoDe(precos_atuais, moeda), i |-> 1,
                  est |-> MoedaInicio]
    /\ pc' = "moeda"
    /\ ret' = SemRetorno
    /\ UNCHANGED <<operacoes, precos_atuais, sl, pl, memo,
                 dist, disco, mercado,
                 janela>>

\* the row the loop of _analisar_moeda is at
Atual == ml.ops[ml.i]

MoedaAvancar == ml' = [ml EXCEPT !.i = @ + 1, !.est = MoedaPasso(@, Atual)]

MoedaIterarCompra ==
    /\ pc = "moeda"
    /\ ml.i <= Len(ml.ops)
    /\ Numerico(Atual.Preco)
    /\ Atual.Operacao = "compra"
    /\ MoedaAvancar
    /\ UNCHANGED <<operacoes, precos_atuais, pc, sl, pl, ret, memo,
                 dist, disco, mercado,
                 janela>>

MoedaIterarVendaRecusada ==
    /\ pc = "moeda"
    /\ ml.i <= Len(ml.ops)
    /\ Numerico(Atual.Preco)
    /\ Atual.Operacao = "venda"
    /\ SemPosicao(ml.est)
    /\ MoedaAvancar
    /\ UNCHANGED <<operacoes, precos_atuais, pc, sl, pl, ret, memo,
                 dist, disco, mercado,
                 janela>>

MoedaIterarVenda ==
    /\ pc = "moeda"
    /\ ml.i <= Len(ml.ops)
    /\ Numerico(Atual.Preco)
    /\ Atual.Operacao = "venda"
    /\ ~SemPosicao(ml.est)
    /\ MoedaAvancar
    /\ UNCHANGED <<operacoes, precos_atuais, pc, sl, pl, ret, memo,
                 dist, disco, mercado,
                 janela>>

MoedaRetornar ==
    /\ pc = "moeda"
    /\ ml.i > Len(ml.ops)
    /\ ret' = [f |-> "_analisar_moeda", moeda |-> ml.moeda,
               valor |-> MoedaRetorno(ml.est, ml.preco_atual)]
    /\ pc' = "ocioso"
    /\ ml' = SemQuadro
    /\ UNCHANGED <<operacoes, precos_atuais, sl, pl, memo,
                 dist, disco, mercado,
                 janela>>

\* PortfolioVazio returning a result with zero totals
PortfolioVazioComTotais ==
    /\ pc = "ocioso"
    /\ operacoes = <<>>
    /\ ret' = [f |-> "calcular_portfolio", moeda |-> Nenhum,
               valor |-> ("totais" :> TotaisInicio)]
    /\ UNCHANGED <<operacoes, precos_atuais, pc, sl, ml, pl, memo,
                 dist, disco, mercado,
                 janela>>

\* calcular_portfolio(operacoes, precos_atuais) with no rows: {}
PortfolioVazio ==
    /\ pc = "ocioso"
    /\ operacoes = <<>>
    /\ ret' = [f |-> "calcular_portfolio", moeda |-> Nenhum, valor |-> <<>>]
    /\ UNCHANGED <<operacoes, precos_atuais, pc, sl, ml, pl, memo,
                 dist, disco, mercado,
                 janela>>

ChamarPortfolio ==
    /\ pc = "ocioso"
    /\ operacoes # <<>>
    /\ pc' = "portfolio"
    /\ pl' = PortfolioInicio(operacoes)
    /\ ret' = SemRetorno
    /\ UNCHANGED <<operacoes, precos_atuais, sl, ml, memo,
                 dist, disco, mercado,
                 janela>>

PortfolioIterar ==
    /\ pc = "portfolio"
    /\ pl.k <= Len(pl.chaves)
    /\ ~Levanta(pl.ops_por_moeda[pl.chaves[pl.k]])
    /\ pl' = PortfolioPasso(pl, precos_atuais)
    /\ UNCHANGED <<operacoes, precos_atuais, pc, sl, ml, ret, memo,
                 dist, disco, mercado,
                 janela>>

PortfolioRetornar ==
    /\ pc = "portfolio"
    /\ pl.k > Len(pl.chaves)
    /\ ret' = [f |-> "calcular_portfolio", moeda |-> Nenhum,
               valor |-> PortfolioRetorno(pl)]
    /\ pc' = "ocioso"
    /\ pl' = SemQuadro
    /\ UNCHANGED <<operacoes, precos_atuais, sl, ml, memo,
                 dist, disco, mercado,
                 janela>>

\* calcular_distribuicao_portfolio(operacoes, precos_atuais) with no rows
ChamarDistribuicaoVazia ==
    /\ pc = "ocioso"
    /\ operacoes = <<>>
    /\ ret' = [f |-> "calcular_distribuicao_portfolio", moeda |-> Nenhum,
               valor |-> DistribuicaoVazia]
    /\ UNCHANGED <<operacoes, precos_atuais, pc, sl, ml, pl, memo,
                 dist, disco, mercado,
                 janela>>

ChamarDistribuicao ==
    /\ pc = "ocioso"
    /\ operacoes # <<>>
    /\ pc' = "distribuicao"
    /\ dist' = DistribuicaoInicio(operacoes)
    /\ ret' = SemRetorno
    /\ UNCHANGED <<operacoes, precos_atuais, sl, ml, pl, memo, disco, mercado,
                 janela>>

DistribuicaoIterar ==
    /\ pc = "distribuicao"
    /\ dist.k <= Len(dist.chaves)
    /\ ~Levanta(dist.ops_por_moeda[dist.chaves[dist.k]])
    /\ dist' = DistribuicaoPasso(dist, precos_atuais)
    /\ UNCHANGED <<operacoes, precos_atuais, pc, sl, ml, pl, ret, memo,
                 disco, mercado,
                 janela>>

DistribuicaoRetornar ==
    /\ pc = "distribuicao"
    /\ dist.k > Len(dist.chaves)
    /\ ret' = [f |-> "calcular_distribuicao_portfolio", moeda |-> Nenhum,
               valor |-> DistribuicaoRetorno(dist)]
    /\ pc' = "ocioso"
    /\ dist' = SemQuadro
    /\ UNCHANGED <<operacoes, precos_atuais, sl, ml, pl, memo, disco, mercado,
                 janela>>

Next ==
    \/ ChamarSaldo
    \/ SaldoIterar
    \/ SaldoRetornar
    \/ ChamarMoeda
    \/ MoedaIterarCompra
    \/ MoedaIterarVendaRecusada
    \/ MoedaIterarVenda
    \/ MoedaRetornar
    \/ PortfolioVazio
    \/ ChamarPortfolio
    \/ PortfolioIterar
    \/ PortfolioRetornar
    \/ ChamarDistribuicaoVazia
    \/ ChamarDistribuicao
    \/ DistribuicaoIterar
    \/ DistribuicaoRetornar

Spec == Init /\ [][Next]_vars

\* ---- a caller that keeps the first value it got and calls again

\* the prices of a refresh that fetched every asset
PrecosCompletos == [m \in {"BTC", "ETH"} |-> D(4, 1)]

InitReplay == Init /\ precos_atuais = PrecosCompletos

Memorizar ==
    /\ pc = "ocioso"
    /\ ret.f # Nenhum
    /\ memo.f = Nenhum
    /\ memo' = ret
    /\ ret' = SemRetorno
    /\ UNCHANGED <<operacoes, precos_atuais, pc, sl, ml, pl, dist, disco,
                 mercado,
                 janela>>

NextReplay == Next \/ Memorizar

SpecReplay == InitReplay /\ [][NextReplay]_vars

\* ---- the engine on rows read from the file

\* a row whose kind is neither 'compra' nor 'venda' is passed over
MoedaIterarIgnorada ==
    /\ pc = "moeda"
    /\ ml.i <= Len(ml.ops)
    /\ Numerico(Atual.Preco)
    /\ Atual.Operacao \notin {"compra", "venda"}
    /\ MoedaAvancar
    /\ UNCHANGED <<operacoes, precos_atuais, pc, sl, pl, ret, memo,
                 dist, disco, mercado,
                 janela>>

\* Decimal(str(op['Preco'])) raises: _analisar_moeda is left
MoedaLevantar ==
    /\ pc = "moeda"
    /\ ml.i <= Len(ml.ops)
    /\ ~Numerico(Atual.Preco)
    /\ ret' = [f |-> "_analisar_moeda", moeda |-> ml.moeda,
               valor |-> InvalidOperation]
    /\ pc' = "ocioso"
    /\ ml' = SemQuadro
    /\ UNCHANGED <<operacoes, precos_atuais, sl, pl, memo, dist, disco, mercado,
                 janela>>

\* _analisar_moeda raises in calcular_portfolio, which does not catch
PortfolioLevantar ==
    /\ pc = "portfolio"
    /\ pl.k <= Len(pl.chaves)
    /\ Levanta(pl.ops_por_moeda[pl.chaves[pl.k]])
    /\ ret' = [f |-> "calcular_portfolio", moeda |-> Nenhum,
               valor |-> InvalidOperation]
    /\ pc' = "ocioso"
    /\ pl' = SemQuadro
    /\ UNCHANGED <<operacoes, precos_atuais, sl, ml, memo, dist, disco, mercado,
                 janela>>

\* _analisar_moeda raises in calcular_distribuicao_portfolio
DistribuicaoLevantar ==
    /\ pc = "distribuicao"
    /\ dist.k <= Len(dist.chaves)
    /\ Levanta(dist.ops_por_moeda[dist.chaves[dist.k]])
    /\ ret' = [f |-> "calcular_distribuicao_portfolio", moeda |-> Nenhum,
               valor |-> InvalidOperation]
    /\ pc' = "ocioso"
    /\ dist' = SemQuadro
    /\ UNCHANGED <<operacoes, precos_atuais, sl, ml, pl, memo, disco, mercado,
                 janela>>

\* ---- DataManager

\* operacoes = self.data_manager.carregar_operacoes()
Carregar ==
    /\ pc = "ocioso"
    /\ operacoes' = CarregarOperacoes(arquivo)
    /\ ret' = [f |-> "carregar_operacoes", moeda |-> Nenhum,
               valor |-> operacoes']
    /\ UNCHANGED <<precos_atuais, pc, sl, ml, pl, memo, dist, disco, mercado,
                 janela>>

\* excluir_operacao(indice): the file is read
ChamarExcluir ==
    /\ pc = "ocioso"
    /\ \E indice \in Indices :
           dm' = [indice |-> indice, operacoes |-> CarregarOperacoes(arquivo)]
    /\ pc' = "excluir"
    /\ ret' = SemRetorno
    /\ UNCHANGED <<operacoes, precos_atuais, sl, ml, pl, memo, dist, arquivo,
                 mercado,
                 janela>>

ExcluirRecusar ==
    /\ pc = "excluir"
    /\ ForaDoLimite(dm.indice, dm.operacoes)
    /\ ret' = [f |-> "excluir_operacao", moeda |-> Nenhum, valor |-> FALSE]
    /\ pc' = "ocioso"
    /\ dm' = SemQuadro
    /\ UNCHANGED <<operacoes, precos_atuais, sl, ml, pl, memo, dist, arquivo,
                 mercado,
                 janela>>

\* the row is deleted and the file written again from the rows read
ExcluirEscrever ==
    /\ pc = "excluir"
    /\ ~ForaDoLimite(dm.indice, dm.operacoes)
    /\ ~EscritaFalha(Remover(dm.operacoes, dm.indice))
    /\ arquivo' = Remover(dm.operacoes, dm.indice)
    /\ ret' = [f |-> "excluir_operacao", moeda |-> Nenhum, valor |-> TRUE]
    /\ pc' = "ocioso"
    /\ dm' = SemQuadro
    /\ UNCHANGED <<operacoes, precos_atuais, sl, ml, pl, memo, dist, mercado,
                 janela>>

\* the row is deleted, open(..., 'w') empties the file and writerows raises
\* part of the way: the except clause returns False
ExcluirFalhar ==
    /\ pc = "excluir"
    /\ ~ForaDoLimite(dm.indice, dm.operacoes)
    /\ EscritaFalha(Remover(dm.operacoes, dm.indice))
    /\ arquivo' = Escritas(Remover(dm.operacoes, dm.indice))
    /\ ret' = [f |-> "excluir_operacao", moeda |-> Nenhum, valor |-> FALSE]
    /\ pc' = "ocioso"
    /\ dm' = SemQuadro
    /\ UNCHANGED <<operacoes, precos_atuais, sl, ml, pl, memo, dist, mercado,
                 janela>>

\* atualizar_operacao(indice, nova_operacao): the file is read
ChamarAtualizar ==
    /\ pc = "ocioso"
    /\ \E indice \in Indices, nova_operacao \in NovasOperacoes :
           dm' = [indice |-> indice, nova_operacao |-> nova_operacao,
                  operacoes |-> CarregarOperacoes(arquivo)]
    /\ pc' = "atualizar"
    /\ ret' = SemRetorno
    /\ UNCHANGED <<operacoes, precos_atuais, sl, ml, pl, memo, dist, arquivo,
                 mercado,
                 janela>>

AtualizarRecusar ==
    /\ pc = "atualizar"
    /\ ForaDoLimite(dm.indice, dm.operacoes)
    /\ ret' = [f |-> "atualizar_operacao", moeda |-> Nenhum, valor |-> FALSE]
    /\ pc' = "ocioso"
    /\ dm' = SemQuadro
    /\ UNCHANGED <<operacoes, precos_atuais, sl, ml, pl, memo, dist, arquivo,
                 mercado,
                 janela>>

\* the row is replaced and the file written again from the rows read
AtualizarEscrever ==
    /\ pc = "atualizar"
    /\ ~ForaDoLimite(dm.indice, dm.operacoes)
    /\ ~EscritaFalha(Substituir(dm.operacoes, dm.indice, dm.nova_operacao))
    /\ arquivo' = Substituir(dm.operacoes, dm.indice, dm.nova_operacao)
    /\ ret' = [f |-> "atualizar_operacao", moeda |-> Nenhum, valor |-> TRUE]
    /\ pc' = "ocioso"
    /\ dm' = SemQuadro
    /\ UNCHANGED <<operacoes, precos_atuais, sl, ml, pl, memo, dist, mercado,
                 janela>>

\* the row is replaced, open(..., 'w') empties the file and writerows
\* raises part of the way: the except clause returns False
AtualizarFalhar ==
    /\ pc = "atualizar"
    /\ ~ForaDoLimite(dm.indice, dm.operacoes)
    /\ EscritaFalha(Substituir(dm.operacoes, dm.indice, dm.nova_operacao))
    /\ arquivo' = Escritas(Substituir(dm.operacoes, dm.indice,
                                      dm.nova_operacao))
    /\ ret' = [f |-> "atualizar_operacao", moeda |-> Nenhum, valor |-> FALSE]
    /\ pc' = "ocioso"
    /\ dm' = SemQuadro
    /\ UNCHANGED <<operacoes, precos_atuais, sl, ml, pl, memo, dist, mercado,
                 janela>>

\* DataManager.salvar_operacao(operacao): the row is appended to the file
SalvarOperacao ==
    /\ pc = "ocioso"
    /\ Len(arquivo) < MaxLinhas
    /\ \E operacao \in NovasOperacoes : arquivo' = Append(arquivo, operacao)
    /\ ret' = [f |-> "salvar_operacao", moeda |-> Nenhum, valor |-> TRUE]
    /\ UNCHANGED <<operacoes, precos_atuais, pc, sl, ml, pl, memo, dist, dm,
                 mercado, janela>>

\* the file holds some lines; nothing was read from it yet
InitCarga ==
    /\ arquivo \in Arquivos
    /\ operacoes = <<>>
    /\ precos_atuais = PrecosCompletos
    /\ pc = "ocioso"
    /\ sl = SemQuadro
    /\ ml = SemQuadro
    /\ pl = SemQuadro
    /\ dist = SemQuadro
    /\ dm = SemQuadro
    /\ ret = SemRetorno
    /\ memo = SemRetorno
    /\ pm = PriceManagerInit
    /\ th = [t \in Threads |-> SemQuadro]
    /\ _stop_updates = FALSE
    /\ CCXT_AVAILABLE = TRUE
    /\ JanelaVazia

NextCarga ==
    \/ Next
    \/ MoedaIterarIgnorada
    \/ MoedaLevantar
    \/ PortfolioLevantar
    \/ DistribuicaoLevantar
    \/ Carregar
    \/ ChamarExcluir
    \/ ExcluirRecusar
    \/ ExcluirEscrever
    \/ ChamarAtualizar
    \/ AtualizarRecusar
    \/ AtualizarEscrever
    \/ ExcluirFalhar
    \/ AtualizarFalhar
    \/ SalvarOperacao

SpecCarga == InitCarga /\ [][NextCarga]_vars

\* ------------------------------------------- PriceManager and its callers

\* the wrap of the clock that stamps ultima_atualizacao
MaxRelogio == 2

\* PortfolioDCA.moedas_suportadas, shortened to two assets and the stable
\* coin
moedas_suportadas == <<"BTC", "ETH", "USDT">>

\* the 'last' prices a ticker of the exchange may carry
UltimosPrecos == {D(4, 1), D(5, 1)}

\* the name under which the USDT/BRL rate is told apart from the assets
ParBrl == "USDT/BRL"

\* the engine, which the price manager leaves alone
motor == <<operacoes, precos_atuais, pc, sl, ml, pl, ret, memo, dist>>

\* datetime.now(): a stamp that differs from the one before
Agora(antes) == (antes % MaxRelogio) + 1

\* precos_cache[moeda] = preco
Guardar(precos_cache, moeda, preco) ==
    [m \in DOMAIN precos_cache \cup {moeda} |->
        IF m = moeda THEN preco ELSE precos_cache[m]]

\* a thread that is not inside atualizar_precos, at a place of its worker;
\* retorno is what its last call returned, if it has called
Fora(lugar) ==
    [pc |-> lugar, i |-> 0, todos_sucesso |-> TRUE, obtidos |-> {},
     avisos |-> {}, retorno |-> <<>>]

\* atualizar_precos past the test of the exchange: todos_sucesso = True and
\* the first of moedas
Entrada == [Fora("precos") EXCEPT !.i = 1]

\* atualizar_precos without an exchange: return False
SemExchange == [Fora("retornou") EXCEPT !.retorno = <<FALSE>>]

\* the next of moedas, or the USDT/BRL rate after the last one
Avancar(q) ==
    IF q.i < Len(moedas_suportadas)
    THEN [q EXCEPT !.i = @ + 1]
    ELSE [q EXCEPT !.i = @ + 1, !.pc = "brl"]

\* a price was stored under nome by this call
Obtido(q, nome) == [q EXCEPT !.obtidos = @ \cup {nome}]

\* SemLast with todos_sucesso left as it was
SemLastOtimista(q, nome) == [q EXCEPT !.avisos = @ \cup {nome}]

\* the ticker has no 'last': a warning and todos_sucesso = False
SemLast(q, nome) ==
    [q EXCEPT !.avisos = @ \cup {nome}, !.todos_sucesso = FALSE]

\* Excecao with the exception ending the loop over moedas
ExcecaoInterrompe(q, nome) ==
    [q EXCEPT !.avisos = @ \cup {nome}, !.todos_sucesso = FALSE,
              !.pc = "retorno"]

\* fetch_ticker or float raised: a warning and todos_sucesso = False
Excecao(q, nome) ==
    [q EXCEPT !.avisos = @ \cup {nome}, !.todos_sucesso = FALSE]

\* DepoisDaEspera with the loop going on to the next call without its test
DepoisDaEsperaSemTeste(q) == "chamada"

\* DepoisDaEspera with the loop left after a refresh that returned False
DepoisDaEsperaSoSucesso(q) ==
    IF q.retorno = <<FALSE>> THEN "fim" ELSE "inicio"

\* after time.sleep(60) the worker is back at the test of its loop
DepoisDaEspera(q) == "inicio"

\* the asset the loop of atualizar_precos is at
MoedaDaVez(t) == moedas_suportadas[th[t].i]

\* the loop of iniciar_atualizacoes_automaticas finds _stop_updates set
AutomaticaTerminar ==
    /\ th["automatica"].pc = "inicio"
    /\ _stop_updates
    /\ th' = [th EXCEPT !["automatica"] = Fora("fim")]
    /\ UNCHANGED <<pm, _stop_updates, CCXT_AVAILABLE, motor, disco,
                 janela>>

\* the loop goes round and calls atualizar_precos
AutomaticaChamar ==
    /\ th["automatica"].pc = "inicio"
    /\ ~_stop_updates
    /\ CCXT_AVAILABLE
    /\ th' = [th EXCEPT !["automatica"] = [@ EXCEPT !.pc = "chamada"]]
    /\ UNCHANGED <<pm, _stop_updates, CCXT_AVAILABLE, motor, disco,
                 janela>>

\* the loop goes round without ccxt: nothing to call
AutomaticaSemCcxt ==
    /\ th["automatica"].pc = "inicio"
    /\ ~_stop_updates
    /\ ~CCXT_AVAILABLE
    /\ th' = [th EXCEPT !["automatica"] = Fora("espera")]
    /\ UNCHANGED <<pm, _stop_updates, CCXT_AVAILABLE, motor, disco,
                 janela>>

\* time.sleep(60) of the loop
AutomaticaDormir ==
    /\ th["automatica"].pc \in {"retornou", "espera"}
    /\ th' = [th EXCEPT !["automatica"] =
                 [Fora(DepoisDaEspera(@)) EXCEPT
                     !.retorno = th["automatica"].retorno]]
    /\ UNCHANGED <<pm, _stop_updates, CCXT_AVAILABLE, motor, disco,
                 janela>>

\* atualizar_todas_as_analises starts its worker, which calls
\* atualizar_precos
AnalisesIniciar ==
    /\ th["analises"].pc = "ociosa"
    /\ ~_stop_updates
    /\ th' = [th EXCEPT !["analises"] = Fora("chamada")]
    /\ UNCHANGED <<pm, _stop_updates, CCXT_AVAILABLE, motor, disco,
                 janela>>

\* the worker of atualizar_todas_as_analises schedules the views and ends
AnalisesTerminar ==
    /\ th["analises"].pc = "retornou"
    /\ th' = [th EXCEPT !["analises"] = Fora("ociosa")]
    /\ UNCHANGED <<pm, _stop_updates, CCXT_AVAILABLE, motor, disco,
                 janela>>

\* atualizar_precos: if not self.exchange: return False
AtualizarPrecosSemExchange(t) ==
    /\ th[t].pc = "chamada"
    /\ pm.exchange = Nenhum
    /\ th' = [th EXCEPT ![t] = SemExchange]
    /\ UNCHANGED <<pm, _stop_updates, CCXT_AVAILABLE, motor, disco,
                 janela>>

\* atualizar_precos: todos_sucesso = True, the loop begins
AtualizarPrecosEntrar(t) ==
    /\ th[t].pc = "chamada"
    /\ pm.exchange # Nenhum
    /\ th' = [th EXCEPT ![t] = Entrada]
    /\ UNCHANGED <<pm, _stop_updates, CCXT_AVAILABLE, motor, disco,
                 janela>>

\* the loop at 'USDT': the price is 1.0, nothing is fetched
PrecosUsdt(t) ==
    /\ th[t].pc = "precos"
    /\ MoedaDaVez(t) = "USDT"
    /\ pm' = [pm EXCEPT !.precos_cache = Guardar(@, "USDT", D(1, 0))]
    /\ th' = [th EXCEPT ![t] = Avancar(Obtido(@, "USDT"))]
    /\ UNCHANGED <<_stop_updates, CCXT_AVAILABLE, motor, disco,
                 janela>>

\* the loop at an asset: the ticker carries a 'last' price
PrecosObter(t) ==
    /\ th[t].pc = "precos"
    /\ MoedaDaVez(t) # "USDT"
    /\ \E last_price \in UltimosPrecos :
          pm' = [pm EXCEPT !.precos_cache =
                               Guardar(@, MoedaDaVez(t), ToFloat(last_price))]
    /\ th' = [th EXCEPT ![t] = Avancar(Obtido(@, MoedaDaVez(t)))]
    /\ UNCHANGED <<_stop_updates, CCXT_AVAILABLE, motor, disco,
                 janela>>

\* the loop at an asset: the ticker carries no 'last' price
PrecosSemLast(t) ==
    /\ th[t].pc = "precos"
    /\ MoedaDaVez(t) # "USDT"
    /\ th' = [th EXCEPT ![t] = Avancar(SemLast(@, MoedaDaVez(t)))]
    /\ UNCHANGED <<pm, _stop_updates, CCXT_AVAILABLE, motor, disco,
                 janela>>

\* the loop at an asset: fetch_ticker raises
PrecosExcecao(t) ==
    /\ th[t].pc = "precos"
    /\ MoedaDaVez(t) # "USDT"
    /\ th' = [th EXCEPT ![t] = Avancar(Excecao(@, MoedaDaVez(t)))]
    /\ UNCHANGED <<pm, _stop_updates, CCXT_AVAILABLE, motor, disco,
                 janela>>

\* the USDT/BRL ticker carries a 'last' price
BrlObter(t) ==
    /\ th[t].pc = "brl"
    /\ \E last_price_brl \in UltimosPrecos :
          pm' = [pm EXCEPT !.preco_brl = ToFloat(last_price_brl)]
    /\ th' = [th EXCEPT ![t] = [Obtido(@, ParBrl) EXCEPT !.pc = "retorno"]]
    /\ UNCHANGED <<_stop_updates, CCXT_AVAILABLE, motor, disco,
                 janela>>

\* the USDT/BRL ticker carries no 'last' price
BrlSemLast(t) ==
    /\ th[t].pc = "brl"
    /\ th' = [th EXCEPT ![t] = [SemLast(@, ParBrl) EXCEPT !.pc = "retorno"]]
    /\ UNCHANGED <<pm, _stop_updates, CCXT_AVAILABLE, motor, disco,
                 janela>>

\* the fetch of the USDT/BRL ticker raises
BrlExcecao(t) ==
    /\ th[t].pc = "brl"
    /\ th' = [th EXCEPT ![t] = [Excecao(@, ParBrl) EXCEPT !.pc = "retorno"]]
    /\ UNCHANGED <<pm, _stop_updates, CCXT_AVAILABLE, motor, disco,
                 janela>>

\* the end of atualizar_precos: the stamp if todos_sucesso, and the return
PrecosRetornar(t) ==
    /\ th[t].pc = "retorno"
    /\ pm' = IF th[t].todos_sucesso
             THEN [pm EXCEPT !.ultima_atualizacao = Agora(@)]
             ELSE pm
    /\ th' = [th EXCEPT ![t] = [@ EXCEPT !.pc = "retornou",
                                         !.retorno = <<th[t].todos_sucesso>>]]
    /\ UNCHANGED <<_stop_updates, CCXT_AVAILABLE, motor, disco,
                 janela>>

\* the window is closed
on_closing ==
    /\ ~_stop_updates
    /\ _stop_updates' = TRUE
    /\ UNCHANGED <<pm, th, CCXT_AVAILABLE, motor, disco,
                 janela>>

\* the application is built: ccxt imported or not, the exchange set up or
\* not, the automatic loop started, no transaction looked at
InitPrecos ==
    /\ operacoes = <<>>
    /\ precos_atuais = <<>>
    /\ pc = "ocioso"
    /\ sl = SemQuadro
    /\ ml = SemQuadro
    /\ pl = SemQuadro
    /\ ret = SemRetorno
    /\ memo = SemRetorno
    /\ dist = SemQuadro
    /\ arquivo = <<>>
    /\ dm = SemQuadro
    /\ CCXT_AVAILABLE \in BOOLEAN
    /\ pm \in {[PriceManagerInit EXCEPT !.exchange = x] :
                  x \in IF CCXT_AVAILABLE THEN {Nenhum, "binance"}
                        ELSE {Nenhum}}
    /\ th = [t \in Threads |->
                IF t = "automatica" THEN Fora("inicio") ELSE Fora("ociosa")]
    /\ _stop_updates = FALSE
    /\ JanelaVazia

\* one step inside atualizar_precos, by either thread
PassoDeAtualizarPrecos(t) ==
    \/ AtualizarPrecosSemExchange(t)
    \/ AtualizarPrecosEntrar(t)
    \/ PrecosUsdt(t)
    \/ PrecosObter(t)
    \/ PrecosSemLast(t)
    \/ PrecosExcecao(t)
    \/ BrlObter(t)
    \/ BrlSemLast(t)
    \/ BrlExcecao(t)
    \/ PrecosRetornar(t)

\* one step of the thread of iniciar_atualizacoes_automaticas
PassoAutomatica ==
    \/ AutomaticaTerminar
    \/ AutomaticaChamar
    \/ AutomaticaSemCcxt
    \/ AutomaticaDormir
    \/ PassoDeAtualizarPrecos("automatica")

\* one step of the worker of atualizar_todas_as_analises
PassoAnalises ==
    \/ AnalisesIniciar
    \/ AnalisesTerminar
    \/ PassoDeAtualizarPrecos("analises")

NextPrecos ==
    \/ PassoAutomatica
    \/ PassoAnalises
    \/ on_closing

SpecPrecos == InitPrecos /\ [][NextPrecos]_vars

\* the automatic thread is scheduled, fetch_ticker ends within its timeout
\* and time.sleep(60) ends
SpecPrecosJusta == SpecPrecos /\ WF_vars(PassoAutomatica)

\* ------------------------------------------------------------ properties

\* an amount or a quantity of a row in hundredths, as a plain integer
Cent(v) == v.c * (10 ^ (v.e + 2))

\* the number of n hundredths
DeCent(n) == D(n, -2)

RECURSIVE SomaValores(_, _, _)
\* the sum, in hundredths, of Valor_USDT over the rows of the given kind
\* that are (usdt) or are not (~usdt) USDT rows
SomaValores(ops, usdt, tipo) ==
    IF ops = <<>> THEN 0
    ELSE LET op == ops[Len(ops)]
         IN  SomaValores(SubSeq(ops, 1, Len(ops) - 1), usdt, tipo)
                 + (IF (op.Moeda = "USDT") = usdt /\ op.Operacao = tipo
                    THEN Cent(op.Valor_USDT) ELSE 0)

SaldoEsperado(ops) ==
    SomaValores(ops, TRUE, "compra") - SomaValores(ops, TRUE, "venda")
        - SomaValores(ops, FALSE, "compra") + SomaValores(ops, FALSE, "venda")

\* C1: the balance calcular_saldo_usdt returns is the sum of the USDT buys
\* minus the USDT sells minus the crypto buys plus the crypto sells; it is
\* not clamped: it is negative whenever the debits exceed the credits.
C1_SaldoSoma ==
    ret.f = "calcular_saldo_usdt" =>
        /\ ret.valor.saldo_atual = DeCent(SaldoEsperado(operacoes))
        /\ SaldoEsperado(operacoes) < 0 => ret.valor.saldo_atual.c < 0

\* a deposit and a larger crypto buy were replayed: the balance is negative
C1_Witness ==
    /\ ret.f = "calcular_saldo_usdt"
    /\ ret.valor.saldo_atual.c < 0
    /\ SomaValores(operacoes, TRUE, "compra") > 0
    /\ SomaValores(operacoes, FALSE, "compra") > 0

Permutacoes(ops) ==
    {[i \in DOMAIN ops |-> ops[f[i]]] :
        f \in {g \in [DOMAIN ops -> DOMAIN ops] :
                  \A i, j \in DOMAIN ops : i # j => g[i] # g[j]}}

\* quantity, cost basis and realized profit of every asset of a result
Resumo(r) ==
    [m \in DOMAIN r \ {"totais", "USDT (Caixa)"} |->
        <<r[m].quantidade_final, r[m].custo_posicao_final, r[m].lucro_realizado>>]

\* no two rows of one asset share a timestamp
SemEmpate(ops) ==
    \A i, j \in DOMAIN ops :
        i # j /\ ops[i].Moeda = ops[j].Moeda => ops[i].Data # ops[j].Data

\* C2 as claimed: every ordering of the rows, rows sharing a timestamp
\* included, gives the same balance and the same per-asset quantity, cost
\* basis and realized profit.
C2_Original ==
    /\ ret.f = "calcular_saldo_usdt" =>
           \A p \in Permutacoes(operacoes) :
               CalcularSaldoUsdt(p).saldo_atual = ret.valor.saldo_atual
    /\ ret.f = "calcular_portfolio" =>
           \A p \in Permutacoes(operacoes) :
               Resumo(CalcularPortfolio(p, precos_atuais)) = Resumo(ret.valor)

\* C2: every ordering of the rows gives the same balance; it gives the same
\* per-asset quantity, cost basis and realized profit when no two rows of
\* one asset share a timestamp.
C2_Permutacao ==
    /\ ret.f = "calcular_saldo_usdt" =>
           \A p \in Permutacoes(operacoes) :
               CalcularSaldoUsdt(p).saldo_atual = ret.valor.saldo_atual
    /\ ret.f = "calcular_portfolio" /\ SemEmpate(operacoes) =>
           \A p \in Permutacoes(operacoes) :
               Resumo(CalcularPortfolio(p, precos_atuais)) = Resumo(ret.valor)

\* calcular_portfolio returned for rows given out of timestamp order, a
\* buy and a later sell of one asset among them
C2_Witness ==
    /\ ret.f = "calcular_portfolio"
    /\ SemEmpate(operacoes)
    /\ Ordenar(operacoes) # operacoes
    /\ \E m \in DOMAIN Resumo(ret.valor) : ret.valor[m].lucro_realizado.c # 0

\* C3: a call never changes the rows or the prices it is given, and a
\* function called again on them returns what it returned before, whatever
\* was called in between.
C3_Replay ==
    [][/\ operacoes' = operacoes
       /\ precos_atuais' = precos_atuais
       /\ (ret'.f # Nenhum /\ memo'.f = ret'.f /\ memo'.moeda = ret'.moeda)
              => ret'.valor = memo'.valor]_vars

\* calcular_portfolio returned a second time, for rows not in timestamp
\* order
C3_Witness ==
    /\ memo.f = "calcular_portfolio"
    /\ ret.f = "calcular_portfolio"
    /\ Ordenar(operacoes) # operacoes
    /\ DOMAIN Resumo(ret.valor) # {}

\* the rows _analisar_moeda was given for the asset of the returned value
OpsDoRetorno == DaMoeda(Ordenar(operacoes), ret.moeda)

RECURSIVE SomaCampo(_, _, _)
\* the sum, in hundredths, of a field over the first n rows
SomaCampo(ops, campo, n) ==
    IF n = 0 THEN 0 ELSE SomaCampo(ops, campo, n - 1) + Cent(ops[n][campo])

SoCompras(ops, n) == \A i \in 1..n : ops[i].Operacao = "compra"

\* C4: after buys only, the average cost is the total amount spent divided
\* by the total quantity bought (the quotient of the totals, as Decimal
\* divides), the quantity is the sum of the quantities and the cost basis
\* the sum of the amounts: in the loop after every buy, and in the value
\* returned; Scenario B gives 30000, 0.02 and 600.
C4_PmcCompras ==
    /\ (pc = "moeda" /\ ml.i > 1 /\ SoCompras(ml.ops, ml.i - 1)) =>
           LET valor == DeCent(SomaCampo(ml.ops, "Valor_USDT", ml.i - 1))
               qtd == DeCent(SomaCampo(ml.ops, "Quantidade", ml.i - 1))
           IN  /\ ml.est.pmc = Dividir(valor, qtd)
               /\ ml.est.quantidade_total = qtd
               /\ ml.est.custo_total = valor
    /\ (ret.f = "_analisar_moeda" /\ SoCompras(OpsDoRetorno, Len(OpsDoRetorno))) =>
           LET n == Len(OpsDoRetorno)
               valor == DeCent(SomaCampo(OpsDoRetorno, "Valor_USDT", n))
               qtd == DeCent(SomaCampo(OpsDoRetorno, "Quantidade", n))
           IN  /\ ret.valor.pmc_final = ToFloat(Dividir(valor, qtd))
               /\ ret.valor.quantidade_final = qtd
               /\ ret.valor.custo_posicao_final = valor
    /\ (ret.f = "_analisar_moeda" /\ operacoes = CenarioB) =>
           /\ ret.valor.pmc_final = D(3, 4)
           /\ ret.valor.quantidade_final = D(2, -2)
           /\ ret.valor.custo_posicao_final = D(6, 2)

\* buys at two different unit costs were replayed and the value returned
C4_Witness ==
    /\ ret.f = "_analisar_moeda"
    /\ Len(OpsDoRetorno) >= 2
    /\ SoCompras(OpsDoRetorno, Len(OpsDoRetorno))
    /\ \E i, j \in DOMAIN OpsDoRetorno : OpsDoRetorno[i].Preco # OpsDoRetorno[j].Preco

\* the loop of _analisar_moeda takes one row
Iteracao == pc = "moeda" /\ pc' = "moeda" /\ ml'.i = ml.i + 1

\* C5 as claimed: a sell of the whole quantity held, Q > 0, leaves the
\* quantity 0 and the reported cost basis 0 and adds the amount less
\* quantity times the average cost to the realized profit; Scenario A ends
\* with no BTC, realized profit 100 and cash 1100.
C5_VendaTotal ==
    [][/\ (Iteracao /\ Atual.Operacao = "venda"
              /\ ml.est.quantidade_total.c > 0
              /\ DecimalStr(Atual.Quantidade) = ml.est.quantidade_total) =>
              /\ ml'.est.quantidade_total = Zero
              /\ MoedaRetorno(ml'.est, ml.preco_atual).custo_posicao_final = Zero
              /\ ml'.est.lucro_realizado =
                     Somar(ml.est.lucro_realizado,
                           Subtrair(DecimalStr(Atual.Valor_USDT),
                                    Multiplicar(DecimalStr(Atual.Quantidade),
                                                ml.est.pmc)))
       /\ (operacoes = CenarioA /\ ret'.f = "calcular_portfolio") =>
              /\ ret'.valor["BTC"].quantidade_final = Zero
              /\ ret'.valor["BTC"].lucro_realizado = D(1, 2)
              /\ ret'.valor["USDT (Caixa)"].quantidade_final = D(11, 2)]_vars

\* the error entry of a sell that was turned away
Recusada(e) == e.tipo = "venda" /\ e.erro # Nenhum

\* C6: a sell met with Q <= 0 or W <= 0 (no buy before it, for one) leaves
\* Q, C and R as they were and is appended to the processed rows with an
\* 'erro' entry; the loop goes on to the next row.
C6_VendaSemPosicao ==
    [][(/\ pc = "moeda"
        /\ ml.i <= Len(ml.ops)
        /\ Atual.Operacao = "venda"
        /\ (ml.est.quantidade_total.c <= 0 \/ ml.est.pmc.c <= 0)) =>
           /\ pc' = "moeda"
           /\ ml'.i = ml.i + 1
           /\ ml'.ops = ml.ops
           /\ ml'.est.quantidade_total = ml.est.quantidade_total
           /\ ml'.est.custo_total = ml.est.custo_total
           /\ ml'.est.lucro_realizado = ml.est.lucro_realizado
           /\ Len(ml'.est.operacoes_processadas)
                  = Len(ml.est.operacoes_processadas) + 1
           /\ SubSeq(ml'.est.operacoes_processadas, 1,
                     Len(ml.est.operacoes_processadas))
                  = ml.est.operacoes_processadas
           /\ Recusada(ml'.est.operacoes_processadas[
                           Len(ml'.est.operacoes_processadas)])]_vars

\* a sell with no buy before it was turned away and the next row, a buy,
\* was processed after it
C6_Witness ==
    /\ pc = "moeda"
    /\ Len(ml.est.operacoes_processadas) >= 2
    /\ Recusada(ml.est.operacoes_processadas[1])
    /\ ml.est.operacoes_processadas[2].tipo = "compra"
    /\ ml.est.quantidade_total.c > 0

\* C7 as claimed: a sell of more than the quantity held is appended with
\* an 'erro' entry and leaves Q, C and R as they were.
C7_VendaInsuficiente ==
    [][(Iteracao /\ Atual.Operacao = "venda"
           /\ Maior(DecimalStr(Atual.Quantidade), ml.est.quantidade_total)) =>
           /\ ml'.est.quantidade_total = ml.est.quantidade_total
           /\ ml'.est.custo_total = ml.est.custo_total
           /\ ml'.est.lucro_realizado = ml.est.lucro_realizado
           /\ Recusada(ml'.est.operacoes_processadas[
                           Len(ml'.est.operacoes_processadas)])]_vars

\* C8 as claimed: the quantity _analisar_moeda returns is never negative.
C8_QuantidadeNaoNegativa ==
    ret.f = "_analisar_moeda" => ret.valor.quantidade_final.c >= 0

\* C9 as claimed: with no price for an asset held at a positive cost, the
\* market value and the unrealized profit returned are 0, the cost basis
\* and the realized profit are what any other price gives.
C9_SemPreco ==
    (/\ ret.f = "_analisar_moeda"
     /\ ret.moeda \notin DOMAIN precos_atuais
     /\ ret.valor.quantidade_final.c > 0
     /\ ret.valor.custo_posicao_final.c > 0) =>
        /\ ret.valor.valor_atual_posicao = Zero
        /\ ret.valor.lucro_nao_realizado = Zero
        /\ \A preco \in Cotacoes :
               LET outro == AnalisarMoeda(OpsDoRetorno, preco)
               IN  /\ outro.custo_posicao_final = ret.valor.custo_posicao_final
                   /\ outro.lucro_realizado = ret.valor.lucro_realizado

\* C10 as claimed: an asset with no price is in the result of
\* calcular_portfolio whenever its cost basis or its realized profit is
\* above 0.01; the 2 ETH of Scenario C, bought for 1000, are in it.
C10_IncluidaSemPreco ==
    ret.f = "calcular_portfolio" =>
        /\ \A moeda \in {operacoes[i].Moeda : i \in DOMAIN operacoes} \ {"USDT"} :
               LET analise == AnalisarMoeda(DaMoeda(Ordenar(operacoes), moeda), Zero)
               IN  (/\ moeda \notin DOMAIN precos_atuais
                    /\ \/ Maior(analise.custo_posicao_final, Poeira)
                       \/ Maior(analise.lucro_realizado, Poeira)) =>
                       moeda \in DOMAIN ret.valor
        /\ (operacoes = CenarioC /\ precos_atuais = <<>>) =>
               "ETH" \in DOMAIN ret.valor

\* the assets of the rows, the reference currency apart
AtivosDe(ops) == {ops[i].Moeda : i \in DOMAIN ops} \ {"USDT"}

\* what _analisar_moeda returns for an asset of the rows at its price
AnaliseDe(moeda) ==
    AnalisarMoeda(DaMoeda(Ordenar(operacoes), moeda),
                  PrecoDe(precos_atuais, moeda))

\* worth more than 0.01 on the market, or more than 0.01 realized
AcimaDaPoeira(analise) ==
    \/ Maior(analise.valor_atual_posicao, Poeira)
    \/ Maior(analise.lucro_realizado, Poeira)
    \/ Maior(Neg(analise.lucro_realizado), Poeira)

RECURSIVE SomaSobre(_, _, _, _)
\* the float sum, in the order of the keys, of a field of the snapshots r
\* over the first n keys that are in S
SomaSobre(chaves, S, r, campo) ==
    IF chaves = <<>> THEN Zero
    ELSE LET antes == SomaSobre(SubSeq(chaves, 1, Len(chaves) - 1), S, r, campo)
             moeda == chaves[Len(chaves)]
         IN  IF moeda \in S THEN FSomar(antes, r[moeda][campo]) ELSE antes

\* C11: an asset of the rows is a key of what calcular_portfolio returns
\* exactly when its market value is above 0.01 or its realized profit is
\* above 0.01 in absolute value, and then with the snapshot of
\* _analisar_moeda; the other assets add nothing to the totals.
C11_Inclusao ==
    (ret.f = "calcular_portfolio" /\ operacoes # <<>>) =>
        LET ativos == AtivosDe(operacoes)
            mantidos == {m \in ativos : AcimaDaPoeira(AnaliseDe(m))}
            analises == [m \in ativos |-> AnaliseDe(m)]
            chaves == Chaves(Ordenar(operacoes))
        IN  /\ DOMAIN ret.valor \ {"totais", "USDT (Caixa)"} = mantidos
            /\ \A m \in mantidos : ret.valor[m] = analises[m]
            /\ ret.valor.totais.investido_liquido
                   = SomaSobre(chaves, mantidos, analises, "custo_posicao_final")
            /\ ret.valor.totais.realizado
                   = SomaSobre(chaves, mantidos, analises, "lucro_realizado")
            /\ ret.valor.totais.nao_realizado
                   = SomaSobre(chaves, mantidos, analises, "lucro_nao_realizado")

\* calcular_portfolio returned with one asset kept and another, worth
\* exactly 0.01 or held at a cost with no price, left out
C11_Witness ==
    /\ ret.f = "calcular_portfolio"
    /\ operacoes # <<>>
    /\ \E m \in AtivosDe(operacoes) :
           /\ m \notin DOMAIN ret.valor
           /\ AnaliseDe(m).custo_posicao_final.c > 0
    /\ \E m \in AtivosDe(operacoes) : m \in DOMAIN ret.valor

\* C12: the totals of calcular_portfolio are the sums over the assets in
\* the result of cost basis, realized profit, unrealized profit and market
\* value; the cash balance, whatever it is, is added to the market value
\* and to nothing else.
C12_Totais ==
    (ret.f = "calcular_portfolio" /\ operacoes # <<>>) =>
        LET chaves == Chaves(Ordenar(operacoes))
            S == DOMAIN ret.valor \ {"totais", "USDT (Caixa)"}
            saldo == CalcularSaldoUsdt(operacoes).saldo_atual
        IN  /\ ret.valor.totais.investido_liquido
                   = SomaSobre(chaves, S, ret.valor, "custo_posicao_final")
            /\ ret.valor.totais.realizado
                   = SomaSobre(chaves, S, ret.valor, "lucro_realizado")
            /\ ret.valor.totais.nao_realizado
                   = SomaSobre(chaves, S, ret.valor, "lucro_nao_realizado")
            /\ ret.valor.totais.valor_atual
                   = FSomar(SomaSobre(chaves, S, ret.valor,
                                      "valor_atual_posicao"), saldo)

\* calcular_portfolio returned with an asset in the result and a negative
\* cash balance
C12_Witness ==
    /\ ret.f = "calcular_portfolio"
    /\ operacoes # <<>>
    /\ DOMAIN ret.valor \ {"totais", "USDT (Caixa)"} # {}
    /\ CalcularSaldoUsdt(operacoes).saldo_atual.c < 0
    /\ ret.valor.totais.valor_atual # ret.valor.totais.investido_liquido

\* the keys of a distribution in the order they were inserted
ChavesDaDistribuicao == Chaves(Ordenar(operacoes)) \o <<"USDT">>

\* the percentages of a distribution, summed
SomaPercentuais(distribuicao) ==
    SomaSobre(ChavesDaDistribuicao, DOMAIN distribuicao, distribuicao,
              "percentual")

\* the portfolio total of a returned distribution: crypto plus cash
TotalDoPortfolio ==
    FSomar(ret.valor.total_investido, CalcularSaldoUsdt(operacoes).saldo_atual)

\* C13 as claimed: whenever crypto market value plus cash is above 0, the
\* percentages of calcular_distribuicao_portfolio sum to 100 within 0.1,
\* a negative cash balance or one below 0.01 included.
C13_SomaCem ==
    (/\ ret.f = "calcular_distribuicao_portfolio"
     /\ operacoes # <<>>
     /\ TotalDoPortfolio.c > 0) =>
        LET desvio == FSubtrair(SomaPercentuais(ret.valor.distribuicao), D(1, 2))
        IN  MenorIgual(FAbs(desvio), D(1, -1))

\* C14: every entry of calcular_distribuicao_portfolio has percentual =
\* value / (crypto total + cash balance) * 100, or 0 when that total is
\* not above 0; the crypto entries are the assets worth more than 0.01,
\* the cash is the entry 'USDT', there when the balance is above 0.01.
C14_Percentual ==
    (ret.f = "calcular_distribuicao_portfolio" /\ operacoes # <<>>) =>
        LET distribuicao == ret.valor.distribuicao
            saldo == CalcularSaldoUsdt(operacoes).saldo_atual
            cryptos == {m \in AtivosDe(operacoes) :
                           Maior(AnaliseDe(m).valor_atual_posicao, Poeira)}
            analises == [m \in cryptos |-> AnaliseDe(m)]
            total == FSomar(SomaSobre(Chaves(Ordenar(operacoes)), cryptos,
                                      analises, "valor_atual_posicao"), saldo)
        IN  /\ DOMAIN distribuicao \ {"USDT"} = cryptos
            /\ "USDT" \in DOMAIN distribuicao <=> Maior(saldo, Poeira)
            /\ \A m \in cryptos :
                   distribuicao[m].valor_atual = analises[m].valor_atual_posicao
            /\ "USDT" \in DOMAIN distribuicao =>
                   distribuicao["USDT"].valor_atual = saldo
            /\ \A m \in DOMAIN distribuicao :
                   distribuicao[m].percentual =
                       IF total.c > 0
                       THEN FMultiplicar(FDividir(distribuicao[m].valor_atual,
                                                  total), D(1, 2))
                       ELSE Zero

\* a distribution was returned with an asset and the cash in it, each
\* with its share of a positive total
C14_Witness ==
    /\ ret.f = "calcular_distribuicao_portfolio"
    /\ operacoes # <<>>
    /\ "USDT" \in DOMAIN ret.valor.distribuicao
    /\ \E m \in DOMAIN ret.valor.distribuicao \ {"USDT"} :
           /\ ret.valor.distribuicao[m].percentual.c > 0
           /\ ret.valor.distribuicao["USDT"].percentual.c > 0

\* C15: for no rows calcular_portfolio returns {} (no 'totais') and
\* calcular_distribuicao_portfolio an empty distribution; for any rows the
\* result of calcular_portfolio has 'totais'.
C15_Vazio ==
    /\ (ret.f = "calcular_portfolio" /\ operacoes = <<>>) =>
           DOMAIN ret.valor = {}
    /\ (ret.f = "calcular_portfolio" /\ operacoes # <<>>) =>
           "totais" \in DOMAIN ret.valor
    /\ (ret.f = "calcular_distribuicao_portfolio" /\ operacoes = <<>>) =>
           DOMAIN ret.valor.distribuicao = {}

\* calcular_portfolio returned for no rows
C15_Witness ==
    /\ operacoes = <<>>
    /\ ret.f = "calcular_portfolio"
    /\ pc = "ocioso"

\* a row the accounting core can replay: every field there, the numbers
\* numbers, the kind one the core compares with
LinhaInteira(op) ==
    /\ op.Data # DataAusente
    /\ op.Moeda # ""
    /\ Numerico(op.Valor_USDT)
    /\ Numerico(op.Preco)
    /\ Numerico(op.Quantidade)
    /\ op.Operacao \in {"compra", "venda"}

\* C16 as claimed: carregar_operacoes returns no row with a field missing
\* (the unit price included), text for a number or a kind the core does
\* not know; calcular_saldo_usdt, _analisar_moeda and calcular_portfolio
\* return a result for what it returned, and every row it returned is
\* replayed.
C16_CargaSegura ==
    /\ ret.f = "carregar_operacoes" =>
           \A i \in DOMAIN ret.valor : LinhaInteira(ret.valor[i])
    /\ ret.f \in {"calcular_saldo_usdt", "_analisar_moeda",
                  "calcular_portfolio"} =>
           "excecao" \notin DOMAIN ret.valor
    /\ ret.f = "calcular_saldo_usdt" =>
           Len(ret.valor.historico) = Len(operacoes)

\* C17: excluir_operacao and atualizar_operacao called with an index below
\* 0 or not below the number of rows carregar_operacoes returns give False
\* and leave the file as it is.
C17_IndiceForaDoLimite ==
    [][(/\ pc \in {"excluir", "atualizar"}
        /\ \/ dm.indice < 0
           \/ dm.indice >= Len(CarregarOperacoes(arquivo))) =>
           /\ pc' = "ocioso"
           /\ ret'.f = (IF pc = "excluir" THEN "excluir_operacao"
                        ELSE "atualizar_operacao")
           /\ ret'.valor = FALSE
           /\ arquivo' = arquivo]_vars

\* excluir_operacao returned False for a file with rows in it: the index
\* was not one of theirs
C17_Witness ==
    /\ ret.f = "excluir_operacao"
    /\ ret.valor = FALSE
    /\ Len(CarregarOperacoes(arquivo)) > 0

\* everything one call of atualizar_precos has to store
Pedidos == {moedas_suportadas[i] : i \in DOMAIN moedas_suportadas} \cup {ParBrl}

\* the values the cache may hold after a fetch
PrecosObtidos == {ToFloat(p) : p \in UltimosPrecos}

\* thread t ends a call of atualizar_precos in this step
Retorna(t) == th[t].pc # "retornou" /\ th'[t].pc = "retornou"

\* this step of thread t stores a price under nome
Armazena(t, nome) ==
    /\ nome \notin th[t].obtidos
    /\ nome \in th'[t].obtidos
    /\ IF nome = ParBrl THEN pm'.preco_brl \in PrecosObtidos
       ELSE /\ nome \in DOMAIN pm'.precos_cache
            /\ pm'.precos_cache[nome] \in
                  IF nome = "USDT" THEN {D(1, 0)} ELSE PrecosObtidos

\* C18: a call of atualizar_precos returns True only when it has itself
\* stored a price for every asset asked for and the USDT/BRL rate, none of
\* them with a warning; ultima_atualizacao changes only in the step in which
\* a call returns True; and a call without an exchange returns False and
\* leaves the whole price manager as it was.
C18_RetornoVerdadeiro ==
    [][\A t \in Threads :
          /\ (Retorna(t) /\ th'[t].retorno = <<TRUE>>)
                => /\ th[t].obtidos = Pedidos
                   /\ th[t].avisos = {}
                   /\ \A m \in Pedidos \ {ParBrl} :
                         m \in DOMAIN pm'.precos_cache
          /\ \A nome \in Pedidos :
                (th'[t].obtidos = th[t].obtidos \cup {nome}
                 /\ nome \notin th[t].obtidos) => Armazena(t, nome)
          /\ (pm'.ultima_atualizacao # pm.ultima_atualizacao)
                => \E u \in Threads :
                      Retorna(u) /\ th'[u].retorno = <<TRUE>>
          /\ (th[t].pc = "chamada" /\ pm.exchange = Nenhum
                /\ th'[t] # th[t])
                => th'[t].retorno = <<FALSE>> /\ pm' = pm
      ]_vars

\* a call has returned True after another had stamped the cache, with
\* different prices stored for the two assets
C18_Witness ==
    /\ th["analises"].retorno = <<TRUE>>
    /\ pm.ultima_atualizacao = MaxRelogio
    /\ pm.precos_cache["BTC"] # pm.precos_cache["ETH"]

\* this step of thread t logs a warning about nome
Avisa(t, nome) == nome \notin th[t].avisos /\ nome \in th'[t].avisos

\* C19: the step in which the fetch of an asset fails (an exception, or a
\* ticker without 'last') changes nothing in the price manager, so the
\* price cached for that asset stays, stores nothing, and leaves the call
\* at the next asset or at the USDT/BRL rate; a failure of the rate leaves
\* the price manager alone as well; and a call that went past the test of
\* the exchange returns a boolean after every asset and the rate were
\* either stored or warned about, False if any warning was logged.
C19_FalhaIsolada ==
    [][\A t \in Threads :
          /\ \A nome \in Pedidos \ {ParBrl} :
                Avisa(t, nome)
                  => /\ pm' = pm
                     /\ th'[t].obtidos = th[t].obtidos
                     /\ th'[t].i = th[t].i + 1
                     /\ th'[t].pc = IF th[t].i < Len(moedas_suportadas)
                                    THEN "precos" ELSE "brl"
          /\ Avisa(t, ParBrl)
                => pm' = pm /\ th'[t].pc = "retorno"
          /\ (Retorna(t) /\ pm.exchange # Nenhum)
                => /\ th'[t].obtidos \cup th'[t].avisos = Pedidos
                   /\ th'[t].obtidos \cap th'[t].avisos = {}
                   /\ th'[t].retorno = <<th'[t].avisos = {}>>
      ]_vars

\* a call has returned after the fetch of BTC failed: the price an earlier
\* call cached for BTC is still there, and ETH and the rate were stored by
\* this call
C19_Witness ==
    /\ th["automatica"].retorno = <<FALSE>>
    /\ th["automatica"].avisos = {"BTC"}
    /\ th["automatica"].obtidos = {"ETH", "USDT", ParBrl}
    /\ "BTC" \in DOMAIN pm.precos_cache
    /\ pm.precos_cache["BTC"] # pm.precos_cache["ETH"]
    /\ pm.ultima_atualizacao # NuncaAtualizado

\* C20: the automatic loop ends only with _stop_updates set; once a call
\* of atualizar_precos has returned, whatever it returned, the only step
\* of the loop is the wait that leads back to the test of the flag, and
\* from there, with the flag not set, to another call; and every returned
\* call is followed by another call unless _stop_updates is set.
C20_LacoContinua ==
    /\ [](th["automatica"].pc = "fim" => _stop_updates)
    /\ [][(th["automatica"].pc = "retornou"
            /\ th'["automatica"] # th["automatica"])
              => th'["automatica"].pc = "inicio"]_vars
    /\ [][(th["automatica"].pc = "inicio" /\ ~_stop_updates
            /\ CCXT_AVAILABLE /\ th'["automatica"] # th["automatica"])
              => th'["automatica"].pc = "chamada"]_vars
    /\ (th["automatica"].pc = "retornou")
          ~> (th["automatica"].pc = "chamada" \/ _stop_updates)

\* the loop calls atualizar_precos again after a call that returned False
C20_Witness ==
    /\ th["automatica"].pc = "chamada"
    /\ th["automatica"].retorno = <<FALSE>>
    /\ ~_stop_updates

\* C21: once _stop_updates is set, the automatic loop never passes its test
\* again: from the test it only ends, and a call of atualizar_precos is
\* reached only by a loop that had passed the test before the flag was set,
\* so at most one refresh starts after the flag; and the loop then ends.
C21_Cancelavel ==
    /\ [][_stop_updates =>
            /\ (th'["automatica"].pc = "chamada"
                  => th["automatica"].pc = "chamada")
            /\ (th["automatica"].pc = "inicio"
                /\ th'["automatica"] # th["automatica"]
                  => th'["automatica"].pc = "fim")
            /\ (th["automatica"].pc = "fim"
                  => th'["automatica"].pc = "fim")]_vars
    /\ _stop_updates ~> (th["automatica"].pc = "fim")

\* the loop has ended after the window was closed, having stored prices
C21_Witness ==
    /\ _stop_updates
    /\ th["automatica"].pc = "fim"
    /\ th["automatica"].retorno = <<>>
    /\ "BTC" \in DOMAIN pm.precos_cache

\* the rows of compra or venda kind, which are the ones the ledger replays
Movimentos(ops) == {i \in DOMAIN ops : ops[i].Operacao \in Tipos}

\* the place of row i of ops among the replayed rows: after the rows with a
\* smaller timestamp and after the earlier rows with the same timestamp
Lugar(ops, i) ==
    1 + Cardinality({j \in Movimentos(ops) :
                        \/ ops[j].Data < ops[i].Data
                        \/ ops[j].Data = ops[i].Data /\ j < i})

\* the kind of movement of a row by the four rules of the ledger
TipoDoMovimento(op) ==
    IF op.Moeda = "USDT"
    THEN (IF op.Operacao = "compra" THEN "deposito_usdt" ELSE "saque_usdt")
    ELSE (IF op.Operacao = "compra" THEN "compra_crypto" ELSE "venda_crypto")

\* what row op adds to the balance, in hundredths
Efeito(op) ==
    IF (op.Moeda = "USDT") = (op.Operacao = "compra")
    THEN Cent(op.Valor_USDT) ELSE -Cent(op.Valor_USDT)

RECURSIVE SomaEfeitos(_, _)
\* the sum of the effects of the rows of ops whose index is in S
SomaEfeitos(ops, S) ==
    IF S = {} THEN 0
    ELSE LET i == CHOOSE j \in S : TRUE
         IN  Efeito(ops[i]) + SomaEfeitos(ops, S \ {i})

\* the balance right after row i of ops was replayed, in hundredths
SaldoApos(ops, i) ==
    SomaEfeitos(ops, {j \in Movimentos(ops) : Lugar(ops, j) <= Lugar(ops, i)})

\* C22: the history calcular_saldo_usdt returns has one entry for each
\* compra or venda row and no other; the entry of a row stands after those
\* of the rows with a smaller timestamp and of the earlier rows with the
\* same timestamp; it carries the row's timestamp and amount, the kind the
\* four rules give it, and as saldo_apos the balance right after that row;
\* and the saldo_apos of the last entry is the balance returned.
C22_Historico ==
    ret.f = "calcular_saldo_usdt" =>
        LET h == ret.valor.historico
        IN  /\ Len(h) = Cardinality(Movimentos(operacoes))
            /\ \A i \in Movimentos(operacoes) :
                  LET e == h[Lugar(operacoes, i)]
                      op == operacoes[i]
                  IN  /\ e.data = op.Data
                      /\ e.tipo = TipoDoMovimento(op)
                      /\ e.moeda = IF op.Moeda = "USDT" THEN Nenhum
                                   ELSE op.Moeda
                      /\ e.valor = ToFloat(op.Valor_USDT)
                      /\ e.saldo_apos = DeCent(SaldoApos(operacoes, i))
            /\ \A k \in 1 .. Len(h) - 1 : h[k].data <= h[k + 1].data
            /\ h # <<>> => h[Len(h)].saldo_apos = ret.valor.saldo_atual

\* two rows with one timestamp and of different kinds were replayed in the
\* order of the input, the second one a deposit
C22_Witness ==
    /\ ret.f = "calcular_saldo_usdt"
    /\ Len(operacoes) = 2
    /\ operacoes[1].Data = operacoes[2].Data
    /\ Len(ret.valor.historico) = 2
    /\ ret.valor.historico[1].tipo = "compra_crypto"
    /\ ret.valor.historico[2].tipo = "deposito_usdt"
    /\ ret.valor.historico[1].saldo_apos.c < 0

\* C23: a sell of quantity q for amount a met with Q > 0 and W > 0 is
\* booked: the realized profit grows by a - q*W, the cost basis falls by
\* q*W, the quantity falls by q, and the average cost W stays; and no step
\* of the loop other than a buy changes W.
C23_VendaAceita ==
    [][/\ (/\ pc = "moeda"
           /\ ml.i <= Len(ml.ops)
           /\ Atual.Operacao = "venda"
           /\ ml.est.quantidade_total.c > 0
           /\ ml.est.pmc.c > 0) =>
              LET a == DecimalStr(Atual.Valor_USDT)
                  q == DecimalStr(Atual.Quantidade)
                  custo == Multiplicar(q, ml.est.pmc)
              IN  /\ pc' = "moeda"
                  /\ ml'.i = ml.i + 1
                  /\ ml'.est.lucro_realizado =
                         Somar(ml.est.lucro_realizado, Subtrair(a, custo))
                  /\ ml'.est.custo_total = Subtrair(ml.est.custo_total, custo)
                  /\ ml'.est.quantidade_total =
                         Subtrair(ml.est.quantidade_total, q)
                  /\ ml'.est.pmc = ml.est.pmc
       /\ (Iteracao /\ ml'.est.pmc # ml.est.pmc) => Atual.Operacao = "compra"
      ]_vars

\* a part of the quantity held was sold at a profit: some is left, at the
\* average cost of the buy
C23_Witness ==
    /\ pc = "moeda"
    /\ ml.est.operacoes_processadas # <<>>
    /\ LET e == ml.est.operacoes_processadas[Len(ml.est.operacoes_processadas)]
       IN  e.tipo = "venda" /\ e.erro = Nenhum
    /\ ml.est.quantidade_total.c > 0
    /\ ml.est.lucro_realizado.c > 0
    /\ ml.est.pmc.c > 0

\* C24 as claimed: whatever the running quantity Q at the end of the loop,
\* the cost basis returned is 0 when Q is within 1e-9 of zero and the
\* running cost basis C otherwise, and the unrealized profit returned is
\* the market value less the cost basis returned, and 0 only when Q is
\* within 1e-9 of zero.
C24_CustoFinal ==
    [][(pc = "moeda" /\ pc' = "ocioso") =>
          LET Q == ml.est.quantidade_total
              perto == MenorIgual(FAbs(Q), Tolerancia)
              r == ret'.valor
          IN  /\ r.custo_posicao_final =
                     IF perto THEN Zero ELSE ToFloat(ml.est.custo_total)
              /\ r.lucro_nao_realizado =
                     IF perto THEN Zero
                     ELSE FSubtrair(r.valor_atual_posicao,
                                    r.custo_posicao_final)
      ]_vars

\* the rows of ops of one asset, in the order of ops, and nothing else
SoDaMoeda(ops, moeda) ==
    LET Dela(op) == op.Moeda = moeda IN SelectSeq(ops, Dela)

\* the price of one asset, and nothing else
SoOPreco(precos, moeda) == [m \in DOMAIN precos \cap {moeda} |-> precos[m]]

\* quantity, average cost, cost basis and realized profit of a snapshot
Posicao(analise) ==
    <<analise.quantidade_final, analise.pmc_final,
      analise.custo_posicao_final, analise.lucro_realizado>>

\* C25: the snapshot calcular_portfolio returns for an asset is the one it
\* returns when the rows of every other asset, USDT included, and the
\* prices of every other asset are taken away, and it is the replay of
\* the asset's own rows, sorted by timestamp, at the asset's own price;
\* so no change to the rows or prices of other assets changes its
\* quantity, average cost, cost basis or realized profit.
C25_SoAPropriaMoeda ==
    ret.f = "calcular_portfolio" =>
        \A moeda \in AtivosDe(operacoes) :
            LET sozinha == CalcularPortfolio(SoDaMoeda(operacoes, moeda),
                                             SoOPreco(precos_atuais, moeda))
                propria == AnalisarMoeda(Ordenar(SoDaMoeda(operacoes, moeda)),
                                         PrecoDe(precos_atuais, moeda))
            IN  /\ (moeda \in DOMAIN ret.valor) = (moeda \in DOMAIN sozinha)
                /\ moeda \in DOMAIN ret.valor =>
                      /\ Posicao(ret.valor[moeda]) = Posicao(sozinha[moeda])
                      /\ Posicao(ret.valor[moeda]) = Posicao(propria)

\* two assets are in the result, from rows given against the order of
\* their timestamps, with a cash row or a price of another asset around
C25_Witness ==
    /\ ret.f = "calcular_portfolio"
    /\ {"BTC", "ETH"} \subseteq DOMAIN ret.valor
    /\ operacoes[1].Data > operacoes[2].Data
    /\ operacoes[1].Moeda # operacoes[2].Moeda

\* no sell among the first n rows of ops asks for more than the quantity
\* held when it is met
SemExcesso(ops, n) ==
    \A k \in 1 .. n :
        ops[k].Operacao = "venda" =>
            MenorIgual(DecimalStr(ops[k].Quantidade),
                       MoedaDobra(ops, k - 1).quantidade_total)

\* the loop has just booked a buy or a sell, and no sell so far asked for
\* more than was held
AposMovimento ==
    /\ pc = "moeda"
    /\ ml.i > 1
    /\ SemExcesso(ml.ops, ml.i - 1)

\* the running cost basis less quantity times average cost
Desvio == Subtrair(ml.est.custo_total,
                   Multiplicar(ml.est.quantidade_total, ml.est.pmc))

\* ten units in the last place of an amount in the hundreds
Arredondamento == D(1, 4 - DecPrec)

\* C26 as claimed: after every buy and every booked sell of a sequence
\* without a sell of more than is held, the running cost basis is exactly
\* the quantity times the average cost.
C26_Original == AposMovimento => Desvio = Zero

\* C26: after every buy and every booked sell of a sequence without a sell
\* of more than is held, the running cost basis is the quantity times the
\* average cost up to the rounding of the Decimal arithmetic.
C26_CustoMedio ==
    AposMovimento => MenorIgual(FAbs(Desvio), Arredondamento)

\* two sells of a part of one buy were booked, and the cost basis has
\* drifted from quantity times average cost by less than the rounding
C26_Witness ==
    /\ AposMovimento
    /\ ml.i = 4
    /\ ml.ops[1].Operacao = "compra"
    /\ ml.ops[2].Operacao = "venda"
    /\ ml.ops[3].Operacao = "venda"
    /\ ml.est.quantidade_total.c > 0
    /\ Desvio # Zero

\* the running state _analisar_moeda ends its loop with for an asset
EstadoFinal(moeda) ==
    LET ops == SoDaMoeda(Ordenar(operacoes), moeda)
    IN  MoedaDobra(ops, Len(ops))

\* no sell of any asset was turned away
NenhumaRecusada ==
    \A moeda \in AtivosDe(operacoes) :
        \A i \in DOMAIN EstadoFinal(moeda).operacoes_processadas :
            ~Recusada(EstadoFinal(moeda).operacoes_processadas[i])

RECURSIVE SomaRealizadoMenosCusto(_)
\* the sum over the assets of S of realized profit less running cost basis
SomaRealizadoMenosCusto(S) ==
    IF S = {} THEN Zero
    ELSE LET moeda == CHOOSE m \in S : TRUE
         IN  Somar(Subtrair(EstadoFinal(moeda).lucro_realizado,
                            EstadoFinal(moeda).custo_total),
                   SomaRealizadoMenosCusto(S \ {moeda}))

\* the USDT deposits less the USDT withdrawals, plus what the positions
\* account for
DinheiroDasPosicoes ==
    Somar(DeCent(SomaValores(operacoes, TRUE, "compra")
                     - SomaValores(operacoes, TRUE, "venda")),
          SomaRealizadoMenosCusto(AtivosDe(operacoes)))

\* C27 as claimed: with no sell turned away, the balance the ledger
\* returns is exactly the USDT deposits less the USDT withdrawals plus the
\* sum over the assets of realized profit less running cost basis.
C27_Original ==
    (ret.f = "calcular_saldo_usdt" /\ NenhumaRecusada) =>
        ret.valor.saldo_atual = DinheiroDasPosicoes

\* C27: with no sell turned away, the balance the ledger returns is the
\* USDT deposits less the USDT withdrawals plus the sum over the assets of
\* realized profit less running cost basis, up to the rounding of the
\* Decimal arithmetic of the position replay.
C27_MesmoDinheiro ==
    (ret.f = "calcular_saldo_usdt" /\ NenhumaRecusada) =>
        MenorIgual(FAbs(Subtrair(ret.valor.saldo_atual, DinheiroDasPosicoes)),
                   Arredondamento)

\* a part of a position was sold, no sell was turned away, and the two
\* replays differ by the rounding of the average cost
C27_Witness ==
    /\ ret.f = "calcular_saldo_usdt"
    /\ NenhumaRecusada
    /\ EstadoFinal("BTC").lucro_realizado # Zero
    /\ EstadoFinal("BTC").quantidade_total.c > 0
    /\ ret.valor.saldo_atual # DinheiroDasPosicoes

\* ------------------------------------------------------- the edit tab

\* the seconds datetime.now() may show while the window is open
MaxAgora == 4

\* the calls of _atualizar_lista_edicao that may be waiting at once
MaxAgenda == 2

\* the line the form of the first tab registers at the second `data_hora`
Registro(data_hora) == LinhaBoa(data_hora, "BTC", "compra")

\* the log after n registrations, one a second
Registrados(n) == [i \in 1 .. n |-> Registro(i)]

\* the amounts the user may type into the Valor_USDT entry
ValoresDigitados == {D(1, 2), D(2, 2)}

\* nova_op of _salvar_transacao_editada: Data and Valor_USDT as typed,
\* Moeda, Operacao and Preco as loaded, the quantity computed again
NovaOp(campos, data, valor_usdt) ==
    [Data |-> data, Moeda |-> campos.Moeda, Operacao |-> campos.Operacao,
     Valor_USDT |-> ToFloat(valor_usdt), Preco |-> ToFloat(campos.Preco),
     Quantidade |-> ToFloat(Dividir(valor_usdt, campos.Preco))]

\* atualizar_todas_as_analises(): its worker ends by scheduling
\* _atualizar_lista_edicao
Agendar == agenda' = agenda + 1

\* PortfolioDCA.salvar_operacao: the form of the first tab registers a row
RegistrarOperacao ==
    /\ agora <= MaxAgora
    /\ agenda < MaxAgenda
    /\ arquivo' = Append(arquivo, Registro(agora))
    /\ agora' = agora + 1
    /\ Agendar
    /\ ret' = [f |-> "salvar_operacao", moeda |-> Nenhum, valor |-> TRUE]
    /\ UNCHANGED <<operacoes, precos_atuais, pc, sl, ml, pl, memo, dist, dm,
                 mercado, tree_edicao, indice_editando, edicao_campos>>

\* the button that calls atualizar_todas_as_analises
BotaoAtualizar ==
    /\ agenda < MaxAgenda
    /\ Agendar
    /\ UNCHANGED <<motor, disco, mercado, tree_edicao, indice_editando,
                 edicao_campos, agora>>

\* _atualizar_lista_edicao, when the event loop reaches it
AtualizarListaEdicao ==
    /\ agenda > 0
    /\ agenda' = agenda - 1
    /\ tree_edicao' = CarregarOperacoes(arquivo)
    /\ UNCHANGED <<motor, disco, mercado, indice_editando, edicao_campos,
                 agora>>

\* _carregar_transacao with a row of the list selected
CarregarTransacao ==
    /\ \E item \in DOMAIN tree_edicao :
           /\ indice_editando' = item - 1
           /\ edicao_campos' = tree_edicao[item]
    /\ UNCHANGED <<motor, disco, mercado, tree_edicao, agenda, agora>>

\* _limpar_formulario_edicao
LimparFormularioEdicao ==
    /\ indice_editando' = SemIndice
    /\ edicao_campos' = FormularioLimpo

\* _excluir_transacao, confirmed: excluir_operacao returns True
ExcluirTransacao ==
    /\ indice_editando # SemIndice
    /\ agenda < MaxAgenda
    /\ ~ForaDoLimite(indice_editando, CarregarOperacoes(arquivo))
    /\ arquivo' = Remover(CarregarOperacoes(arquivo), indice_editando)
    /\ ret' = [f |-> "excluir_operacao", moeda |-> Nenhum, valor |-> TRUE]
    /\ LimparFormularioEdicao
    /\ Agendar
    /\ UNCHANGED <<operacoes, precos_atuais, pc, sl, ml, pl, memo, dist, dm,
                 mercado, tree_edicao, agora>>

\* _excluir_transacao, confirmed: excluir_operacao returns False
ExcluirTransacaoRecusada ==
    /\ indice_editando # SemIndice
    /\ ForaDoLimite(indice_editando, CarregarOperacoes(arquivo))
    /\ ret' = [f |-> "excluir_operacao", moeda |-> Nenhum, valor |-> FALSE]
    /\ UNCHANGED <<operacoes, precos_atuais, pc, sl, ml, pl, memo, dist,
                 disco, mercado, janela>>

\* _salvar_transacao_editada: atualizar_operacao returns True
SalvarTransacaoEditada ==
    /\ indice_editando # SemIndice
    /\ agenda < MaxAgenda
    /\ ~ForaDoLimite(indice_editando, CarregarOperacoes(arquivo))
    /\ \E data \in {edicao_campos.Data, DataAusente},
          valor_usdt \in ValoresDigitados :
           arquivo' = Substituir(CarregarOperacoes(arquivo), indice_editando,
                                 NovaOp(edicao_campos, data, valor_usdt))
    /\ ret' = [f |-> "atualizar_operacao", moeda |-> Nenhum, valor |-> TRUE]
    /\ LimparFormularioEdicao
    /\ Agendar
    /\ UNCHANGED <<operacoes, precos_atuais, pc, sl, ml, pl, memo, dist, dm,
                 mercado, tree_edicao, agora>>

\* _salvar_transacao_editada: atualizar_operacao returns False
SalvarTransacaoEditadaRecusada ==
    /\ indice_editando # SemIndice
    /\ ForaDoLimite(indice_editando, CarregarOperacoes(arquivo))
    /\ ret' = [f |-> "atualizar_operacao", moeda |-> Nenhum, valor |-> FALSE]
    /\ UNCHANGED <<operacoes, precos_atuais, pc, sl, ml, pl, memo, dist,
                 disco, mercado, janela>>

\* the window as criar_interface leaves it: the list filled from the log,
\* the first atualizar_todas_as_analises on its way
InitEdicao ==
    /\ \E n \in 0 .. MaxAgora - 1 :
           /\ arquivo = Registrados(n)
           /\ agora = n + 1
    /\ tree_edicao = CarregarOperacoes(arquivo)
    /\ indice_editando = SemIndice
    /\ edicao_campos = FormularioLimpo
    /\ agenda = 1
    /\ operacoes = <<>>
    /\ precos_atuais = <<>>
    /\ pc = "ocioso"
    /\ sl = SemQuadro
    /\ ml = SemQuadro
    /\ pl = SemQuadro
    /\ dist = SemQuadro
    /\ dm = SemQuadro
    /\ ret = SemRetorno
    /\ memo = SemRetorno
    /\ pm = PriceManagerInit
    /\ th = [t \in Threads |-> SemQuadro]
    /\ _stop_updates = FALSE
    /\ CCXT_AVAILABLE = TRUE

NextEdicao ==
    \/ RegistrarOperacao
    \/ BotaoAtualizar
    \/ AtualizarListaEdicao
    \/ CarregarTransacao
    \/ ExcluirTransacao
    \/ ExcluirTransacaoRecusada
    \/ SalvarTransacaoEditada
    \/ SalvarTransacaoEditadaRecusada

SpecEdicao == InitEdicao /\ [][NextEdicao]_vars

\* the stored record at the index the form holds
RegistroNoIndice == CarregarOperacoes(arquivo)[indice_editando + 1]

\* a delete or an edit went through: the form held an index and was
\* cleared
Concluida == indice_editando # SemIndice /\ indice_editando' = SemIndice

\* C28: in the edit tab, whatever the order of registering, loading,
\* editing, deleting and the refreshes of the list, the record that a
\* delete removes or an edit replaces is the stored record whose values
\* were loaded into the form
C28_RegistroCarregado ==
    [][Concluida => RegistroNoIndice = edicao_campos]_vars

\* excluir_operacao or atualizar_operacao returns
RetornaDoArquivo == pc \in {"excluir", "atualizar"} /\ pc' = "ocioso"

\* C29: whenever excluir_operacao or atualizar_operacao returns False, be
\* it for an index out of bounds, a failed load or a failed write, the
\* persisted log is the same as before the call
C29_FalsoNaoAltera ==
    [][(RetornaDoArquivo /\ ret'.valor = FALSE) => arquivo' = arquivo]_vars

\* the call that returns has succeeded
RetornaVerdadeiro == RetornaDoArquivo /\ ret'.valor = TRUE

\* DataManager.salvar_operacao has returned True: the file is a line longer
Acrescenta == pc = "ocioso" /\ Len(arquivo') = Len(arquivo) + 1

\* C30: after excluir_operacao(i) has returned True the next
\* carregar_operacoes returns the sequence loaded before with exactly
\* element i removed; after atualizar_operacao(i, op) has returned True it
\* returns that sequence with only position i replaced by op; after
\* salvar_operacao has returned True it returns that sequence with the
\* record appended at the end
C30_ProximaCarga ==
    [][/\ (RetornaVerdadeiro /\ pc = "excluir")
              => CarregarOperacoes(arquivo')
                     = Remover(CarregarOperacoes(arquivo), dm.indice)
       /\ (RetornaVerdadeiro /\ pc = "atualizar")
              => CarregarOperacoes(arquivo')
                     = Substituir(CarregarOperacoes(arquivo), dm.indice,
                                  dm.nova_operacao)
       /\ Acrescenta
              => CarregarOperacoes(arquivo')
                     = Append(CarregarOperacoes(arquivo),
                              arquivo'[Len(arquivo')])]_arquivo

====
